---- MODULE Spec2Model ----
(***************************************************************************)
(* Orchestral score -> string quartet reduction and chord identification.  *)
(* Pitches are MIDI numbers, pitch classes are pitch % 12.  Offsets are    *)
(* counted in hundredths of a quarter note, durations in quarters of a     *)
(* quarter note, weights and chord scores in the integer units named at    *)
(* their definitions.                                                      *)
(***************************************************************************)
EXTENDS Integers, Sequences, FiniteSets, TLC

VARIABLES
    phase,              \* position of the running call or driver
    offset,             \* select_harmonic_voices_for_offset: the offset argument
    previous_voices,    \* the previous_voices argument / loop variable, <<>> for None
    pc_keys,            \* the keys of harmony_info['pitch_class_weights']
    top_pcs,            \* the four pitch classes chosen from the weights
    final_midis,        \* the working list final_midis
    voices,             \* the tuple select_harmonic_voices_for_offset returned
    top_pcs_v6,         \* primary_pcs of analyze_harmony_in_segment (v6), same weights
    runs,               \* arrange_to_quartet_v10: the note lists of two runs on one score
    parts,              \* v1/v3 arranger: the events appended to the four parts
    segment_idx,        \* v1/v3 arranger: the loop variable i, segments done so far
    num_segments,       \* v1/v3 arranger: int(total_length / segment_length), rounded down
    segment_length,     \* v1/v3 arranger: the segment_length argument
    result,             \* v1/v3 arranger: what the selection returned for the latest segment
    total_length,       \* v1/v3 arranger: the end of the last measure of the first part
    version,            \* chord extraction: which extract_chords module runs
    key_pc,             \* chord extraction: the pitch class the score is transposed to
    num_measures,       \* chord extraction: the number of measures analysed
    segments_done,      \* chord extraction: segments analysed so far, two to a measure
    bass_pitch,         \* chord extraction: the bass elected for the latest segment
    pitch_class_raw_counts, \* v9-v11: the Counter collected for the latest segment
    pitch_weights,      \* v12: the weights collected for the latest segment
    verified_bass,      \* v9-v11: what verify_bass_with_frequency returned
    chord_symbol,       \* chord extraction: the symbol matched for the latest segment
    confidence,         \* chord extraction: the score of that match
    chord_progression,  \* chord extraction: the records appended so far
    measure_candidates, \* v12: the best below-threshold entry of each measure
    transposition,      \* one call of transpose_to_ideal_range: arguments and result
    detection,          \* one call of detect_parallel_fifths_octaves: arguments and result
    leading,            \* the voice-leading step of one selection: the pitches before and after
    invocation,         \* one call of a function run on its own: arguments and result
    evaluation          \* evaluate_arrangement: the score and what each metric returned

selectVars == <<offset, previous_voices, pc_keys, top_pcs, final_midis, voices, top_pcs_v6>>

arrangeVars ==
    <<parts, segment_idx, num_segments, segment_length, result, total_length>>

chordVars ==
    <<version, key_pc, num_measures, segments_done, bass_pitch, pitch_class_raw_counts,
      pitch_weights, verified_bass, chord_symbol, confidence, chord_progression,
      measure_candidates>>

callVars == <<transposition, detection, leading, invocation, evaluation>>

vars == <<phase, selectVars, runs, arrangeVars, chordVars, callVars>>

None == <<>>

Abs(x) == IF x < 0 THEN 0 - x ELSE x

Min2(a, b) == IF a < b THEN a ELSE b

SeqsUpTo(S, n) == UNION {[1..k -> S] : k \in 0..n}

(***************************************************************************)
(* Instrument ranges (IDEAL_RANGES).                                       *)
(***************************************************************************)
IDEAL_RANGES ==
    [violin |-> [min |-> 55, max |-> 103, comfort_min |-> 60, comfort_max |-> 95],
     viola  |-> [min |-> 48, max |-> 91,  comfort_min |-> 52, comfort_max |-> 80],
     cello  |-> [min |-> 36, max |-> 84,  comfort_min |-> 40, comfort_max |-> 70]]

RECURSIVE RaiseInto(_, _)
RaiseInto(midi, lo) == IF midi < lo THEN RaiseInto(midi + 12, lo) ELSE midi

RECURSIVE LowerInto(_, _)
LowerInto(midi, hi) == IF midi > hi THEN LowerInto(midi - 12, hi) ELSE midi

\* first the comfort range: one of the two loops runs, never both
ComfortFold(midi, ideal) ==
    IF midi < ideal.comfort_min THEN RaiseInto(midi, ideal.comfort_min)
    ELSE IF midi > ideal.comfort_max THEN LowerInto(midi, ideal.comfort_max)
    ELSE midi

AbsoluteClamp(midi, ideal) ==
    IF midi < ideal.min THEN ideal.min
    ELSE IF midi > ideal.max THEN ideal.max
    ELSE midi

\* faulty variant: the equal pitch is moved by a whole tone
AvoidSameByTone(midi, inst_type, avoid, avoid_same_as) ==
    IF avoid /\ midi = avoid_same_as
    THEN IF inst_type = "viola" THEN midi + 2 ELSE midi - 2
    ELSE midi

\* avoid_same_as = None is passed as avoid = FALSE
AvoidSame(midi, inst_type, avoid, avoid_same_as) ==
    IF avoid /\ midi = avoid_same_as
    THEN IF inst_type = "viola" THEN midi + 7 ELSE midi - 7
    ELSE midi

transpose_to_ideal_range(midi, inst_type, avoid, avoid_same_as) ==
    LET ideal == IDEAL_RANGES[inst_type]
    IN AvoidSame(AbsoluteClamp(ComfortFold(midi, ideal), ideal),
                 inst_type, avoid, avoid_same_as)

(***************************************************************************)
(* select_harmonic_voices_for_offset (v9 and v10 are the same text).       *)
(***************************************************************************)
\* sorted(items, key=weight, reverse=True): stable, equal weights keep their order
RECURSIVE InsertByWeightDesc(_, _)
InsertByWeightDesc(sorted, x) ==
    IF sorted = <<>> THEN <<x>>
    ELSE IF Head(sorted).weight >= x.weight
         THEN <<Head(sorted)>> \o InsertByWeightDesc(Tail(sorted), x)
         ELSE <<x>> \o sorted

\* faulty variant: equal weights are ordered by pitch, the lower one first
RECURSIVE SortByWeightThenPitch(_)
SortByWeightThenPitch(s) ==
    IF s = <<>> THEN <<>>
    ELSE LET x == CHOOSE y \in {s[i] : i \in 1..Len(s)} :
                      \A i \in 1..Len(s) :
                          \/ y.weight > s[i].weight
                          \/ (y.weight = s[i].weight /\ y.key <= s[i].key)
             at == CHOOSE i \in 1..Len(s) : s[i] = x
         IN <<x>> \o SortByWeightThenPitch(SubSeq(s, 1, at - 1) \o SubSeq(s, at + 1, Len(s)))

RECURSIVE SortByWeightDesc(_)
SortByWeightDesc(s) ==
    IF s = <<>> THEN <<>>
    ELSE InsertByWeightDesc(SortByWeightDesc(SubSeq(s, 1, Len(s) - 1)), s[Len(s)])

FirstN(s, n) == SubSeq(s, 1, Min2(Len(s), n))

\* faulty variant: the missing pitch classes stacked a fourth above the last one
RECURSIVE FillFourths(_)
FillFourths(pcs) ==
    IF Len(pcs) >= 4 THEN pcs
    ELSE FillFourths(Append(pcs, (pcs[Len(pcs)] + 5) % 12))

RECURSIVE FillFifths(_)
FillFifths(pcs) ==
    IF Len(pcs) >= 4 THEN pcs
    ELSE FillFifths(Append(pcs, (pcs[Len(pcs)] + 7) % 12))

DefaultPcs == <<0, 4, 7, 10>>

\* faulty variant: the last selected pitch class is repeated until four are there
TopPcsRepeated(pc_weights) ==
    IF pc_weights # <<>>
    THEN LET top == FirstN(SortByWeightDesc(pc_weights), 4)
         IN [i \in 1..4 |-> top[Min2(i, Len(top))].pc]
    ELSE DefaultPcs

TopPcs(pc_weights) ==
    IF pc_weights # <<>>
    THEN LET top == FirstN(SortByWeightDesc(pc_weights), 4)
         IN FillFifths([i \in 1..Len(top) |-> top[i].pc])
    ELSE DefaultPcs

\* index i is 1..4 here for the code's 0..3: cello, viola, violin II, violin I
BaseMidis(pcs) == [i \in 1..4 |-> ((i + 1) * 12) + pcs[i]]

RECURSIVE RaiseToPc(_, _)
RaiseToPc(midi, pc) == IF midi % 12 = pc THEN midi ELSE RaiseToPc(midi + 1, pc)

OffsetTolerance == 1

AtOffset(cands, off) ==
    SelectSeq(cands, LAMBDA n : Abs(n.offset - off) < OffsetTolerance)

\* max(cands, key=weight): the first candidate of maximal weight
RECURSIVE MaxByWeight(_)
MaxByWeight(cands) ==
    IF Len(cands) = 1 THEN cands[1]
    ELSE LET rest == MaxByWeight(Tail(cands))
         IN IF rest.weight > cands[1].weight THEN rest ELSE cands[1]

AdjustMelody(f, melody_candidates, off) ==
    LET at == AtOffset(melody_candidates, off)
    IN IF at # <<>>
       THEN [f EXCEPT ![4] = RaiseToPc(f[4], MaxByWeight(at).midi % 12)]
       ELSE f

AdjustBass(f, bass_candidates, off) ==
    LET at == AtOffset(bass_candidates, off)
    IN IF at # <<>>
       THEN [f EXCEPT ![1] = RaiseToPc(f[1], MaxByWeight(at).midi % 12)]
       ELSE f

AdjustInner(f, harmony_candidates, off) ==
    LET at == SortByWeightDesc(AtOffset(harmony_candidates, off))
    IN IF at # <<>>
       THEN LET g == [f EXCEPT ![2] = RaiseToPc(f[2], at[1].midi % 12)]
            IN IF Len(at) > 1
               THEN [g EXCEPT ![3] = RaiseToPc(g[3], at[2].midi % 12)]
               ELSE [g EXCEPT ![3] = RaiseToPc(g[3], ((g[2] % 12) + 7) % 12)]
       ELSE f

OctaveShifts == <<-12, 0, 12>>

\* faulty variant: only the octave above the previous pitch is tried
OctaveAbove(current, previous) ==
    (((previous + 12) \div 12) * 12) + (current % 12)

\* candidate = ((previous + shift) // 12) * 12 + pc, the nearest of the three wins,
\* the first one on a tie (min keeps the first minimum)
NearestOctave(current, previous) ==
    LET pc == current % 12
        cand(k) == (((previous + OctaveShifts[k]) \div 12) * 12) + pc
        dist(k) == Abs(cand(k) - previous)
        best == CHOOSE k \in 1..3 :
                    /\ \A j \in 1..3 : dist(k) <= dist(j)
                    /\ \A j \in 1..(k - 1) : dist(j) > dist(k)
    IN cand(best)

MaxLeap == 12

VoiceLead(f, prev) ==
    IF prev # <<>>
    THEN [i \in 1..4 |->
            IF Abs(f[i] - prev[i]) > MaxLeap THEN NearestOctave(f[i], prev[i]) ELSE f[i]]
    ELSE f

\* faulty variant: the pitches left where voice leading put them
RangeFoldSkipped(f) == f

\* the four calls run in this order: the viola is compared with the still
\* unfolded violin II, the violin II with the already folded viola
RangeFold(f) ==
    LET c  == transpose_to_ideal_range(f[1], "cello", FALSE, 0)
        va == transpose_to_ideal_range(f[2], "viola", TRUE, f[3])
        v2 == transpose_to_ideal_range(f[3], "violin", TRUE, va)
        v1 == transpose_to_ideal_range(f[4], "violin", FALSE, 0)
    IN <<c, va, v2, v1>>

\* sorted(range(4), key=lambda i: final_midis[i]): stable, an index goes behind
\* every index whose pitch is not above its own
RECURSIVE InsertIndex(_, _, _)
InsertIndex(sorted, i, f) ==
    IF sorted = <<>> THEN <<i>>
    ELSE IF f[Head(sorted)] <= f[i]
         THEN <<Head(sorted)>> \o InsertIndex(Tail(sorted), i, f)
         ELSE <<i>> \o sorted

SortedIndices(f) ==
    InsertIndex(InsertIndex(InsertIndex(<<1>>, 2, f), 3, f), 4, f)

\* faulty variant: the re-sort after range folding left out
ResortSkipped(f) == f

Resort(f) ==
    LET si == SortedIndices(f)
    IN IF si # <<1, 2, 3, 4>> THEN [i \in 1..4 |-> f[si[i]]] ELSE f

PreLeading(info, off) ==
    AdjustInner(
        AdjustBass(
            AdjustMelody(BaseMidis(TopPcs(info.pitch_class_weights)),
                         info.melody_candidates, off),
            info.bass_candidates, off),
        info.harmony_candidates, off)

select_harmonic_voices_for_offset(info, off, prev) ==
    Resort(RangeFold(VoiceLead(PreLeading(info, off), prev)))

(***************************************************************************)
(* analyze_harmony_in_segment (v6): the primary pitch classes.             *)
(***************************************************************************)
RECURSIVE FillFifthsV6(_)
FillFifthsV6(pcs) ==
    IF Len(pcs) >= 4 THEN pcs
    ELSE IF pcs # <<>>
         THEN FillFifthsV6(Append(pcs, (pcs[Len(pcs)] + 7) % 12))
         ELSE FillFifthsV6(Append(pcs, 0))

PrimaryPcsV6(pc_weights) ==
    LET top == FirstN(SortByWeightDesc(pc_weights), 4)
    IN FillFifthsV6([i \in 1..Len(top) |-> top[i].pc])

(***************************************************************************)
(* Bounded arguments of select_harmonic_voices_for_offset.                 *)
(***************************************************************************)
MaxPc == 2
MaxPrevIdx == 1

InputPcs == 0..MaxPc

DistinctPcs(m) == \A i, j \in 1..Len(m) : i # j => m[i].pc # m[j].pc

\* pitch_class_weights: a dict keyed by pitch class, in insertion order
PcWeightMaps ==
    {m \in SeqsUpTo([pc : InputPcs, weight : {1, 2}], 4) : DistinctPcs(m)}

\* candidate lists as analyze_measure_harmony_refined files them: melody
\* candidates above 60, bass candidates below 72; some lie at another offset
CandidateLists(low) ==
    SeqsUpTo([offset : {0, 50}, midi : {low + p : p \in InputPcs}, weight : {1, 2}], 2)

\* earlier results: one pitch per voice, a step of 13 semitones above the
\* comfort minimum of its instrument, in ascending order as the function returns
PrevPitches(inst_type) ==
    {IDEAL_RANGES[inst_type].comfort_min + (13 * k) : k \in 0..MaxPrevIdx}

PrevChoices ==
    {None} \cup
    {p \in PrevPitches("cello") \X PrevPitches("viola")
           \X PrevPitches("violin") \X PrevPitches("violin") :
        \A i \in 1..3 : p[i] <= p[i + 1]}

(***************************************************************************)
(* The state of the programs that are not running.                         *)
(***************************************************************************)
IdleSelect ==
    /\ offset = 0
    /\ previous_voices = None
    /\ pc_keys = {}
    /\ top_pcs = None
    /\ final_midis = None
    /\ voices = None
    /\ top_pcs_v6 = None

IdleArrange ==
    /\ parts = None
    /\ segment_idx = 0
    /\ num_segments = 0
    /\ segment_length = 0
    /\ result = None
    /\ total_length = 0

IdleChord ==
    /\ version = ""
    /\ key_pc = 0
    /\ num_measures = 0
    /\ segments_done = 0
    /\ bass_pitch = None
    /\ pitch_class_raw_counts = <<>>
    /\ pitch_weights = <<>>
    /\ verified_bass = None
    /\ chord_symbol = ""
    /\ confidence = 0
    /\ chord_progression = <<>>
    /\ measure_candidates = <<>>

IdleCalls ==
    /\ transposition = None
    /\ detection = None
    /\ leading = None
    /\ invocation = None
    /\ evaluation = None

(***************************************************************************)
(* One call of select_harmonic_voices_for_offset, step by step.            *)
(***************************************************************************)
InitSelect ==
    /\ phase = "weights"
    /\ offset = 0
    /\ previous_voices \in PrevChoices
    /\ pc_keys = {}
    /\ top_pcs = None
    /\ final_midis = None
    /\ voices = None
    /\ top_pcs_v6 = None
    /\ runs = None
    /\ IdleArrange
    /\ IdleChord
    /\ IdleCalls

\* the four most important pitch classes and their base pitches
SelectTopPcs ==
    /\ phase = "weights"
    /\ \E pc_weights \in PcWeightMaps :
        /\ pc_keys' = {pc_weights[i].pc : i \in 1..Len(pc_weights)}
        /\ top_pcs' = TopPcs(pc_weights)
        /\ final_midis' = BaseMidis(TopPcs(pc_weights))
        /\ top_pcs_v6' = PrimaryPcsV6(pc_weights)
    /\ phase' = "melody"
    /\ UNCHANGED <<offset, previous_voices, voices, runs, arrangeVars, chordVars, callVars>>

\* 1. melody
SelectMelody ==
    /\ phase = "melody"
    /\ \E melody_candidates \in CandidateLists(72) :
        final_midis' = AdjustMelody(final_midis, melody_candidates, offset)
    /\ phase' = "bass"
    /\ UNCHANGED <<offset, previous_voices, pc_keys, top_pcs, voices, top_pcs_v6, runs,
                   arrangeVars, chordVars, callVars>>

\* 2. bass
SelectBass ==
    /\ phase = "bass"
    /\ \E bass_candidates \in CandidateLists(36) :
        final_midis' = AdjustBass(final_midis, bass_candidates, offset)
    /\ phase' = "inner"
    /\ UNCHANGED <<offset, previous_voices, pc_keys, top_pcs, voices, top_pcs_v6, runs,
                   arrangeVars, chordVars, callVars>>

\* 3. inner voices
SelectInner ==
    /\ phase = "inner"
    /\ \E harmony_candidates \in CandidateLists(60) :
        final_midis' = AdjustInner(final_midis, harmony_candidates, offset)
    /\ phase' = "leading"
    /\ UNCHANGED <<offset, previous_voices, pc_keys, top_pcs, voices, top_pcs_v6, runs,
                   arrangeVars, chordVars, callVars>>

\* 4. voice leading, range folding, re-sorting, return
SelectFinish ==
    /\ phase = "leading"
    /\ final_midis' = RangeFold(VoiceLead(final_midis, previous_voices))
    /\ voices' = Resort(RangeFold(VoiceLead(final_midis, previous_voices)))
    /\ phase' = "returned"
    /\ UNCHANGED <<offset, previous_voices, pc_keys, top_pcs, top_pcs_v6, runs,
                   arrangeVars, chordVars, callVars>>

NextSelect ==
    \/ SelectTopPcs
    \/ SelectMelody
    \/ SelectBass
    \/ SelectInner
    \/ SelectFinish

SpecSelect == InitSelect /\ [][NextSelect]_vars

(***************************************************************************)
(* Parallel fifths and octaves (v10).  List indices are 1-based here: the  *)
(* code's index i is i + 1.                                                *)
(***************************************************************************)
\* faulty variant: oblique motion and repeated notes are flagged as well
detect_parallel_or_oblique(voice1_notes, voice2_notes) ==
    {i \in 2..Min2(Len(voice1_notes), Len(voice2_notes)) :
        LET prev_interval == Abs(voice1_notes[i - 1] - voice2_notes[i - 1]) % 12
            curr_interval == Abs(voice1_notes[i] - voice2_notes[i]) % 12
            prev_dir == voice1_notes[i] - voice1_notes[i - 1]
            curr_dir == voice2_notes[i] - voice2_notes[i - 1]
        IN /\ \/ (prev_interval = 7 /\ curr_interval = 7)
              \/ (prev_interval = 0 /\ curr_interval = 0)
           /\ prev_dir * curr_dir >= 0}

detect_parallel_fifths_octaves(voice1_notes, voice2_notes) ==
    {i \in 2..Min2(Len(voice1_notes), Len(voice2_notes)) :
        LET prev_interval == Abs(voice1_notes[i - 1] - voice2_notes[i - 1]) % 12
            curr_interval == Abs(voice1_notes[i] - voice2_notes[i]) % 12
            prev_dir == voice1_notes[i] - voice1_notes[i - 1]
            curr_dir == voice2_notes[i] - voice2_notes[i - 1]
        IN /\ \/ (prev_interval = 7 /\ curr_interval = 7)
              \/ (prev_interval = 0 /\ curr_interval = 0)
           /\ prev_dir * curr_dir > 0}

\* what the two random draws of one flagged index add to voice 2:
\* 0 when random.random() >= 0.5, else random.choice([-2, 2])
FixDraws == {-2, 0, 2}

\* faulty variant: the draw applied to both voices
fix_parallel_motion_both(voice1_notes, voice2_notes, parallel_indices, draw) ==
    <<[i \in 1..Len(voice1_notes) |->
          IF i \in parallel_indices /\ i <= Len(voice2_notes)
          THEN voice1_notes[i] + draw[i]
          ELSE voice1_notes[i]],
      [i \in 1..Len(voice2_notes) |->
          IF i \in parallel_indices /\ i <= Len(voice1_notes)
          THEN voice2_notes[i] + draw[i]
          ELSE voice2_notes[i]],
      voice1_notes, voice2_notes>>

\* faulty variant: voice2_fixed is voice2_notes itself, not a copy of it
fix_parallel_motion_in_place(voice1_notes, voice2_notes, parallel_indices, draw) ==
    LET voice2_fixed ==
            [i \in 1..Len(voice2_notes) |->
                IF i \in parallel_indices /\ i <= Len(voice1_notes)
                THEN voice2_notes[i] + draw[i]
                ELSE voice2_notes[i]]
    IN <<voice1_notes, voice2_fixed, voice1_notes, voice2_fixed>>

\* draw[idx] is the outcome of the random draws made for idx.  The result is
\* <<voice1_fixed, voice2_fixed>> followed by the two argument lists as the
\* call leaves them: the function works on copies
fix_parallel_motion(voice1_notes, voice2_notes, parallel_indices, draw) ==
    LET voice2_fixed ==
            [i \in 1..Len(voice2_notes) |->
                IF i \in parallel_indices /\ i <= Len(voice1_notes)
                THEN voice2_notes[i] + draw[i]
                ELSE voice2_notes[i]]
    IN <<voice1_notes, voice2_fixed, voice1_notes, voice2_notes>>

(***************************************************************************)
(* arrange_to_quartet_v10, run twice on one score.  One window is one      *)
(* rhythm entry of a measure.                                              *)
(***************************************************************************)
MaxWindows == 2

Runs == 1..2

\* harmony_info of a window: weights of at most one pitch class (the other three
\* are stacked fifths), and the candidates found at the window's offset
WindowInfos ==
    [pitch_class_weights :
        {<<>>, <<[pc |-> 0, weight |-> 1]>>, <<[pc |-> 1, weight |-> 1]>>,
         <<[pc |-> 5, weight |-> 1]>>},
     melody_candidates : {<<>>, <<[offset |-> 0, midi |-> 72, weight |-> 1]>>},
     bass_candidates : {<<>>},
     harmony_candidates :
        {<<>>,
         <<[offset |-> 0, midi |-> 60, weight |-> 1]>>,
         <<[offset |-> 0, midi |-> 65, weight |-> 1]>>,
         <<[offset |-> 0, midi |-> 60, weight |-> 1],
           [offset |-> 0, midi |-> 60, weight |-> 1]>>,
         <<[offset |-> 0, midi |-> 70, weight |-> 1],
           [offset |-> 0, midi |-> 70, weight |-> 1]>>}]

InitV10 ==
    /\ phase = "arrange"
    /\ runs = [r \in Runs |->
                [violin1_notes |-> <<>>, violin2_notes |-> <<>>, viola_notes |-> <<>>,
                 cello_notes |-> <<>>, previous_voices |-> None, parallels |-> {},
                 v2_midis |-> <<>>, viola_midis |-> <<>>]]
    /\ IdleSelect
    /\ IdleCalls
    /\ IdleArrange
    /\ IdleChord

\* step 2, one rhythm entry: select the four voices and append them
ArrangeWindow(run, info) ==
    LET v == select_harmonic_voices_for_offset(info, 0, run.previous_voices)
    IN [run EXCEPT !.cello_notes = Append(@, v[1]),
                   !.viola_notes = Append(@, v[2]),
                   !.violin2_notes = Append(@, v[3]),
                   !.violin1_notes = Append(@, v[4]),
                   !.previous_voices = v]

V10Window ==
    /\ phase = "arrange"
    /\ Len(runs[1].cello_notes) < MaxWindows
    /\ \E info \in WindowInfos :
        runs' = [r \in Runs |-> ArrangeWindow(runs[r], info)]
    /\ UNCHANGED <<phase, selectVars, arrangeVars, chordVars, callVars>>

\* step 3, the detection between violin II and viola on lists of equal length
DetectedParallels(run) ==
    IF run.violin2_notes # <<>> /\ run.viola_notes # <<>>
    THEN LET min_len == Min2(Len(run.violin2_notes), Len(run.viola_notes))
         IN detect_parallel_fifths_octaves(SubSeq(run.violin2_notes, 1, min_len),
                                           SubSeq(run.viola_notes, 1, min_len))
    ELSE {}

\* step 3 for one run: fix what was detected and write the pitches back
VoiceLeadingPass(run, draw) ==
    LET parallels == DetectedParallels(run)
    IN IF parallels # {}
       THEN LET min_len == Min2(Len(run.violin2_notes), Len(run.viola_notes))
                fixed == fix_parallel_motion(SubSeq(run.violin2_notes, 1, min_len),
                                             SubSeq(run.viola_notes, 1, min_len),
                                             parallels, draw)
            IN [run EXCEPT
                    !.violin2_notes = [i \in 1..Len(@) |->
                                          IF i <= min_len THEN fixed[1][i] ELSE @[i]],
                    !.viola_notes = [i \in 1..Len(@) |->
                                        IF i <= min_len THEN fixed[2][i] ELSE @[i]],
                    !.parallels = parallels,
                    !.v2_midis = fixed[3],
                    !.viola_midis = fixed[4]]
       ELSE IF run.violin2_notes # <<>> /\ run.viola_notes # <<>>
            THEN LET min_len == Min2(Len(run.violin2_notes), Len(run.viola_notes))
                 IN [run EXCEPT !.v2_midis = SubSeq(run.violin2_notes, 1, min_len),
                                !.viola_midis = SubSeq(run.viola_notes, 1, min_len)]
            ELSE run

\* every measure has been arranged: step 3 runs, each run with its own draws
V10VoiceLeading ==
    /\ phase = "arrange"
    /\ \E draw1 \in [DetectedParallels(runs[1]) -> FixDraws],
          draw2 \in [DetectedParallels(runs[2]) -> FixDraws] :
        runs' = [r \in Runs |->
                    VoiceLeadingPass(runs[r], IF r = 1 THEN draw1 ELSE draw2)]
    /\ phase' = "done"
    /\ UNCHANGED <<selectVars, arrangeVars, chordVars, callVars>>

NextV10 ==
    \/ V10Window
    \/ V10VoiceLeading

SpecV10 == InitV10 /\ [][NextV10]_vars

(***************************************************************************)
(* Properties of select_harmonic_voices_for_offset (SpecSelect).           *)
(***************************************************************************)
Ordered(v) == v[1] <= v[2] /\ v[2] <= v[3] /\ v[3] <= v[4]

\* C1: the tuple returned by select_harmonic_voices_for_offset is ordered
\* cello <= viola <= violin II <= violin I, also when range folding inverted it
C1_Ordered == phase = "returned" => Ordered(voices)

\* C1 witness: a call with previous voices returned after range folding had put
\* the voices out of order
C1_Witness == phase = "returned" /\ ~Ordered(final_midis) /\ previous_voices # None

StackedFifths(p) == <<p, (p + 7) % 12, (p + 14) % 12, (p + 21) % 12>>

\* C5: when the weight map holds exactly one pitch class p, the four selected
\* pitch classes are p, p+7, p+14, p+21 (mod 12), in v10 and in v6 alike, and the
\* call returns four pitches
C5_StackingFallback ==
    (phase # "weights" /\ Cardinality(pc_keys) = 1) =>
        /\ \E p \in pc_keys : top_pcs = StackedFifths(p) /\ top_pcs_v6 = StackedFifths(p)
        /\ phase = "returned" => (Len(voices) = 4 /\ \A i \in 1..4 : voices[i] \in Nat)

\* C5 witness: a call on a single pitch class whose stacked fifths wrap around
\* the octave has returned
C5_Witness ==
    /\ phase = "returned"
    /\ pc_keys = {MaxPc}
    /\ top_pcs[3] < top_pcs[2]
    /\ Len(voices) = 4

(***************************************************************************)
(* Properties of arrange_to_quartet_v10 (SpecV10).                         *)
(***************************************************************************)
InAbsoluteRange(midi, inst_type) ==
    IDEAL_RANGES[inst_type].min <= midi /\ midi <= IDEAL_RANGES[inst_type].max

\* C2: in the final output every cello pitch lies in [36,84], every viola pitch
\* in [48,91] and every violin pitch in [55,103], the parallel-motion
\* correction included
C2_RangeCompliance ==
    phase = "done" =>
        \A r \in Runs : \A i \in 1..Len(runs[r].cello_notes) :
            /\ InAbsoluteRange(runs[r].cello_notes[i], "cello")
            /\ InAbsoluteRange(runs[r].viola_notes[i], "viola")
            /\ InAbsoluteRange(runs[r].violin2_notes[i], "violin")
            /\ InAbsoluteRange(runs[r].violin1_notes[i], "violin")

\* C2 witness: the correction has moved a viola pitch below the comfort range
C2_Witness ==
    /\ phase = "done"
    /\ \E r \in Runs : \E i \in runs[r].parallels :
        runs[r].viola_notes[i] < IDEAL_RANGES["viola"].comfort_min

\* C4 as stated: two runs on one score end with the same four pitch sequences
C4_IdenticalRuns ==
    phase = "done" =>
        /\ runs[1].violin1_notes = runs[2].violin1_notes
        /\ runs[1].violin2_notes = runs[2].violin2_notes
        /\ runs[1].viola_notes = runs[2].viola_notes
        /\ runs[1].cello_notes = runs[2].cello_notes

\* C4 (amended): two runs on one score end with the same violin I, violin II and
\* cello sequences and flag the same indices; the viola sequences agree at every
\* index that was not flagged and are at most two steps of 2 apart at a flagged one
C4_SameExceptFlaggedViola ==
    phase = "done" =>
        /\ runs[1].violin1_notes = runs[2].violin1_notes
        /\ runs[1].violin2_notes = runs[2].violin2_notes
        /\ runs[1].cello_notes = runs[2].cello_notes
        /\ runs[1].parallels = runs[2].parallels
        /\ Len(runs[1].viola_notes) = Len(runs[2].viola_notes)
        /\ \A i \in 1..Len(runs[1].viola_notes) :
            IF i \in runs[1].parallels
            THEN Abs(runs[1].viola_notes[i] - runs[2].viola_notes[i]) \in {0, 2, 4}
            ELSE runs[1].viola_notes[i] = runs[2].viola_notes[i]

\* C4 witness: the two runs ended with different viola sequences
C4_Witness ==
    /\ phase = "done"
    /\ runs[1].parallels # {}
    /\ runs[1].viola_notes # runs[2].viola_notes

(***************************************************************************)
(* The segment arrangers: arrange_to_quartet (v1) and arrange_to_quartet_v3.*)
(* A note of notes_data is [midi, weight, duration]; a defaultdict(float)   *)
(* is the sequence of its [key, weight] items in insertion order.           *)
(***************************************************************************)
INSTRUMENT_RANGES ==
    [violin |-> <<55, 103>>, viola |-> <<48, 91>>, cello |-> <<36, 84>>]

\* the two while loops, one after the other
transpose_to_range(midi, min_midi, max_midi) ==
    LowerInto(RaiseInto(midi, min_midi), max_midi)

\* d[k] += w
RECURSIVE AddWeight(_, _, _)
AddWeight(d, k, w) ==
    IF d = <<>> THEN <<[key |-> k, weight |-> w]>>
    ELSE IF Head(d).key = k
         THEN <<[key |-> k, weight |-> Head(d).weight + w]>> \o Tail(d)
         ELSE <<Head(d)>> \o AddWeight(Tail(d), k, w)

RECURSIVE MidiWeights(_)
MidiWeights(notes) ==
    IF notes = <<>> THEN <<>>
    ELSE AddWeight(MidiWeights(SubSeq(notes, 1, Len(notes) - 1)),
                   notes[Len(notes)].midi, notes[Len(notes)].weight)

RECURSIVE DurationCounts(_)
DurationCounts(notes) ==
    IF notes = <<>> THEN <<>>
    ELSE AddWeight(DurationCounts(SubSeq(notes, 1, Len(notes) - 1)),
                   notes[Len(notes)].duration, notes[Len(notes)].weight)

Keys(d) == {d[i].key : i \in 1..Len(d)}

MinOf(S) == CHOOSE x \in S : \A y \in S : x <= y

\* midi_weights[lowest_midi] *= 3.0
BassBonus(d) ==
    [i \in 1..Len(d) |->
        IF d[i].key = MinOf(Keys(d)) THEN [d[i] EXCEPT !.weight = @ * 3] ELSE d[i]]

\* sorted(...) of distinct numbers, ascending
RECURSIVE SortAsc(_)
SortAsc(S) ==
    IF S = {} THEN <<>> ELSE <<MinOf(S)>> \o SortAsc(S \ {MinOf(S)})

DefaultDuration == 4

\* durations are counted in quarters of a quarter note: 1.0 is 4
get_dominant_duration(notes) ==
    IF notes = <<>> THEN DefaultDuration
    ELSE MaxByWeight(DurationCounts(notes)).key

select_four_voices(notes, seg_len) ==
    IF notes = <<>> THEN None
    ELSE LET top_4 == FirstN(SortByWeightDesc(BassBonus(MidiWeights(notes))), 4)
         IN IF Len(top_4) < 4 THEN None
            ELSE LET selected_midis == SortAsc(Keys(top_4))
                     R == INSTRUMENT_RANGES
                 IN <<transpose_to_range(selected_midis[1], R.cello[1], R.cello[2]),
                      transpose_to_range(selected_midis[2], R.viola[1], R.viola[2]),
                      transpose_to_range(selected_midis[3], R.violin[1], R.violin[2]),
                      transpose_to_range(selected_midis[4], R.violin[1], R.violin[2]),
                      Min2(get_dominant_duration(notes), seg_len)>>

NoPitch == -1

\* v1: the four voices from the lowest up, NoPitch where fewer than four
\* different pitches sound; None when nothing sounds
select_voices(notes) ==
    IF notes = <<>> THEN None
    ELSE LET top_4 == FirstN(SortByWeightDesc(BassBonus(MidiWeights(notes))), 4)
             selected_midis_sorted == SortAsc(Keys(top_4))
         IN [i \in 1..4 |->
                IF i <= Len(selected_midis_sorted) THEN selected_midis_sorted[i]
                ELSE NoPitch]

Note(midi, quarterLength) ==
    [rest |-> FALSE, midi |-> midi, quarterLength |-> quarterLength]

Rest(quarterLength) ==
    [rest |-> TRUE, midi |-> NoPitch, quarterLength |-> quarterLength]

EmptyParts == [cello |-> <<>>, viola |-> <<>>, violin2 |-> <<>>, violin1 |-> <<>>]

PartNames == {"cello", "viola", "violin2", "violin1"}

\* part.append(event) on each of the four parts; e is in the order of the
\* selection: cello, viola, violin II, violin I
AppendEvents(ps, e) ==
    [cello |-> Append(ps.cello, e[1]), viola |-> Append(ps.viola, e[2]),
     violin2 |-> Append(ps.violin2, e[3]), violin1 |-> Append(ps.violin1, e[4])]

\* the body of the v3 loop after the selection
V3Append(ps, res, seg_len) ==
    IF res # None
    THEN AppendEvents(ps, [i \in 1..4 |-> Note(res[i], res[5])])
    ELSE AppendEvents(ps, [i \in 1..4 |-> Rest(seg_len)])

\* the body of the v1 loop after the selection: nothing happens without voices
V1Append(ps, vs, seg_len) ==
    IF vs # None
    THEN AppendEvents(ps, [i \in 1..4 |->
                              IF vs[i] = NoPitch THEN Rest(seg_len)
                              ELSE Note(vs[i], seg_len)])
    ELSE ps

MaxSegments == 2

\* 0.5 (the default) and 1.0
SegmentLengths == {2, 4}

\* the notes a segment can hold, in part order; each is either a sixteenth of
\* weight 1 or a half note of weight 4, and any of them may be missing
SegmentPitches == <<64, 31, 76, 55, 43>>

RECURSIVE NotesOf(_, _)
NotesOf(i, kind) ==
    IF i > Len(SegmentPitches) THEN <<>>
    ELSE (CASE kind[i] = "absent" -> <<>>
            [] kind[i] = "short" ->
                <<[midi |-> SegmentPitches[i], weight |-> 1, duration |-> 1]>>
            [] kind[i] = "long" ->
                <<[midi |-> SegmentPitches[i], weight |-> 4, duration |-> 8]>>)
         \o NotesOf(i + 1, kind)

SegmentNotes ==
    {NotesOf(1, kind) : kind \in [1..Len(SegmentPitches) -> {"absent", "short", "long"}]}

InitArrange(start) ==
    /\ phase = start
    /\ parts = EmptyParts
    /\ segment_idx = 0
    /\ segment_length \in SegmentLengths
    /\ total_length \in {t \in 1..(4 * (MaxSegments + 1)) :
                           t \div segment_length <= MaxSegments}
    /\ num_segments = total_length \div segment_length
    /\ result = None
    /\ runs = None
    /\ IdleSelect
    /\ IdleCalls
    /\ IdleChord

InitV3 == InitArrange("v3")

\* one pass of the loop of arrange_to_quartet_v3
V3Segment ==
    /\ phase = "v3"
    /\ segment_idx < num_segments
    /\ \E notes_data \in SegmentNotes :
        /\ result' = select_four_voices(notes_data, segment_length)
        /\ parts' = V3Append(parts, select_four_voices(notes_data, segment_length),
                             segment_length)
    /\ segment_idx' = segment_idx + 1
    /\ UNCHANGED <<phase, num_segments, segment_length, total_length, selectVars, runs, chordVars, callVars>>

\* the loop is over, the parts are assembled into the score
V3Finish ==
    /\ phase = "v3"
    /\ segment_idx = num_segments
    /\ phase' = "v3done"
    /\ UNCHANGED <<arrangeVars, selectVars, runs, chordVars, callVars>>

NextV3 ==
    \/ V3Segment
    \/ V3Finish

SpecV3 == InitV3 /\ [][NextV3]_vars

InitV1 == InitArrange("v1")

\* one pass of the loop of arrange_to_quartet
V1Segment ==
    /\ phase = "v1"
    /\ segment_idx < num_segments
    /\ \E notes_data \in SegmentNotes :
        /\ result' = select_voices(notes_data)
        /\ parts' = V1Append(parts, select_voices(notes_data), segment_length)
    /\ segment_idx' = segment_idx + 1
    /\ UNCHANGED <<phase, num_segments, segment_length, total_length, selectVars, runs, chordVars, callVars>>

V1Finish ==
    /\ phase = "v1"
    /\ segment_idx = num_segments
    /\ phase' = "v1done"
    /\ UNCHANGED <<arrangeVars, selectVars, runs, chordVars, callVars>>

NextV1 ==
    \/ V1Segment
    \/ V1Finish

SpecV1 == InitV1 /\ [][NextV1]_vars

RECURSIVE TotalLength(_)
TotalLength(events) ==
    IF events = <<>> THEN 0 ELSE Head(events).quarterLength + TotalLength(Tail(events))

\* C3 as stated: when arrange_to_quartet_v3 has run, the durations of the events
\* of each part add up to num_segments * segment_length
C3_Completeness ==
    phase = "v3done" =>
        \A name \in PartNames : TotalLength(parts[name]) = num_segments * segment_length

\* C3: a finished run whose parts are shorter than the timeline
C3_Witness ==
    /\ phase = "v3done"
    /\ \A name \in PartNames : TotalLength(parts[name]) < num_segments * segment_length

\* C6 as stated: a pass of the v1 loop whose selection returned None appends one
\* rest of segment_length to each of the four parts
C6_RestForEmptySegment ==
    [][(phase = "v1" /\ segment_idx' = segment_idx + 1 /\ result' = None) =>
          \A name \in PartNames :
              parts'[name] = Append(parts[name], Rest(segment_length))]_vars

\* C6: a finished run with a silent segment, and no part holds an event for it
C6_Witness ==
    /\ phase = "v1done"
    /\ \A name \in PartNames : Len(parts[name]) < num_segments

(***************************************************************************)
(* Chord extraction, v9 to v11: verify_bass_with_frequency, match_chord    *)
(* and the loop that appends the records.  Scores are counted in sixtieths: *)
(* 1.0 is 60, so that thirds, quarters and the steps of 0.05 are integers.  *)
(* A Counter or dict is the sequence of its [key, weight] items in         *)
(* insertion order, the weight of a Counter item being its count.          *)
(***************************************************************************)
\* CHORD_TEMPLATES in the order of the dict
CHORD_TEMPLATES ==
    <<[chord_type |-> "major", template |-> {0, 4, 7}],
      [chord_type |-> "minor", template |-> {0, 3, 7}],
      [chord_type |-> "dom7", template |-> {0, 4, 7, 10}],
      [chord_type |-> "min7", template |-> {0, 3, 7, 10}],
      [chord_type |-> "diminished", template |-> {0, 3, 6}],
      [chord_type |-> "augmented", template |-> {0, 4, 8}]>>

ScoreUnit == 60
ExtraPenalty == 6
MajorBonus == 3
AcceptThreshold == 39

\* the name of a pitch of pitch class pc
PitchName(pc) ==
    <<"C", "C#", "D", "E-", "E", "F", "F#", "G", "G#", "A", "B-", "B">>[pc + 1]

NoOctave == -1

Pitch(pc, octave) == [pitchClass |-> pc, name |-> PitchName(pc), octave |-> octave]

\* new_pitch = Pitch(); new_pitch.pitchClass = pc
NewPitch(pc) == Pitch(pc, NoOctave)

\* counts.get(pc, 0)
CountOf(counts, pc) ==
    IF \E i \in 1..Len(counts) : counts[i].key = pc
    THEN counts[CHOOSE i \in 1..Len(counts) : counts[i].key = pc].weight
    ELSE 0

\* faulty variant: the bass is replaced also when its count is exactly half the maximum
verify_bass_at_half(bass, counts) ==
    IF bass = None \/ counts = <<>> THEN bass
    ELSE LET most_common == MaxByWeight(counts)
         IN IF 2 * CountOf(counts, bass.pitchClass) <= most_common.weight
            THEN NewPitch(most_common.key)
            ELSE bass

\* bass_freq < most_common_freq * 0.5, both sides doubled
verify_bass_with_frequency(bass, counts) ==
    IF bass = None \/ counts = <<>> THEN bass
    ELSE LET most_common == MaxByWeight(counts)
         IN IF 2 * CountOf(counts, bass.pitchClass) < most_common.weight
            THEN NewPitch(most_common.key)
            ELSE bass

\* faulty variant: no version adds the bonus
NoMajorBonus(ver) == 0

\* faulty variant: the bonus counted twice
DoubleMajorBonus(ver) == IF ver = "v9" THEN 0 ELSE 2 * MajorBonus

\* v10 and v11 add 0.05 to the score of the major template, v9 does not
MajorBonusOf(ver) == IF ver = "v9" THEN 0 ELSE MajorBonus

Intervals(pitch_classes, root_pc) == {(pc - root_pc) % 12 : pc \in pitch_classes}

\* faulty variant: a single extra note is penalised already
TemplateScoreStrict(t, intervals, ver) ==
    LET matches == Cardinality(intervals \cap t.template)
        extra == Cardinality(intervals \ t.template)
        base == matches * (ScoreUnit \div Cardinality(t.template))
        penalised == IF extra >= 1 THEN base - (ExtraPenalty * extra) ELSE base
    IN IF t.chord_type = "major" THEN penalised + MajorBonusOf(ver) ELSE penalised

\* the score of one template, before it is compared
TemplateScore(t, intervals, ver) ==
    LET matches == Cardinality(intervals \cap t.template)
        extra == Cardinality(intervals \ t.template)
        base == matches * (ScoreUnit \div Cardinality(t.template))
        penalised == IF extra > 1 THEN base - (ExtraPenalty * extra) ELSE base
    IN IF t.chord_type = "major" THEN penalised + MajorBonusOf(ver) ELSE penalised

\* faulty variant: the best score wins whatever it is
MatchStepAnyScore(best, t, intervals, ver) ==
    LET score == TemplateScore(t, intervals, ver)
    IN IF score > best.best_score
       THEN [best_match |-> t.chord_type, best_score |-> score]
       ELSE best

\* one pass of the loop over the templates
MatchStep(best, t, intervals, ver) ==
    LET score == TemplateScore(t, intervals, ver)
    IN IF score > best.best_score /\ score >= AcceptThreshold
       THEN [best_match |-> t.chord_type, best_score |-> score]
       ELSE best

NoMatch == "none"

RECURSIVE MatchLoop(_, _, _)
MatchLoop(k, intervals, ver) ==
    IF k = 0 THEN [best_match |-> NoMatch, best_score |-> 0]
    ELSE MatchStep(MatchLoop(k - 1, intervals, ver), CHORD_TEMPLATES[k], intervals, ver)

Suffix(chord_type) ==
    CASE chord_type = "major" -> ""
      [] chord_type = "minor" -> "m"
      [] chord_type = "dom7" -> "7"
      [] chord_type = "min7" -> "m7"
      [] chord_type = "diminished" -> "dim"
      [] chord_type = "augmented" -> "aug"

\* the empty string stands for the symbol None
NoSymbol == ""

\* match_chord of module ver: <<chord symbol, score>>
match_chord(pitch_classes, bass, ver) ==
    IF pitch_classes = {} THEN <<NoSymbol, 0>>
    ELSE LET best == MatchLoop(Len(CHORD_TEMPLATES),
                               Intervals(pitch_classes, bass.pitchClass), ver)
         IN IF best.best_match # NoMatch
            THEN <<bass.name \o Suffix(best.best_match), best.best_score>>
            ELSE <<NoSymbol, 0>>

(***************************************************************************)
(* The segments of a score in the key of key_pc.                           *)
(***************************************************************************)
MaxChordSegments == 2
SegmentsPerMeasure == 2

PitchClasses == 0..11

\* the pitch classes sounding in a segment, as intervals above the key note
ChordShapes ==
    {{}, {0}, {4, 7}, {0, 4, 7}, {0, 3, 7}, {0, 4, 7, 10}, {0, 1, 2, 4},
     {0, 1, 2, 4, 5, 6, 7}}

\* how often the pitch classes occur: all once, or the first one more often
CountPatterns == {1, 2, 3}

\* get_segment_pitches_weighted: the Counter, keys in the order of the notes
RawCounts(key, shape, first_count) ==
    LET ivs == SortAsc(shape)
    IN [i \in 1..Len(ivs) |->
           [key |-> (key + ivs[i]) % 12,
            weight |-> IF i = 1 THEN first_count ELSE 1]]

\* get_segment_bass_weighted: no bass note, the key note, or the fifth above it
ElectedBasses(key) == {None, Pitch(key, 2), Pitch((key + 7) % 12, 2)}

Versions == {"v9", "v10", "v11"}

InitChord ==
    /\ phase = "chords"
    /\ version \in Versions
    /\ key_pc \in PitchClasses
    /\ num_measures = 0
    /\ segments_done = 0
    /\ bass_pitch = None
    /\ pitch_class_raw_counts = <<>>
    /\ pitch_weights = <<>>
    /\ verified_bass = None
    /\ chord_symbol = NoSymbol
    /\ confidence = 0
    /\ chord_progression = <<>>
    /\ measure_candidates = <<>>
    /\ runs = None
    /\ IdleSelect
    /\ IdleCalls
    /\ IdleArrange

\* the record of the segment that comes after done segments
ChordEntry(done, symbol, bass, score) ==
    [measure |-> (done \div SegmentsPerMeasure) + 1,
     beat |-> (2 * (done % SegmentsPerMeasure)) + 1,
     chord |-> symbol, bass |-> bass, confidence |-> score]

\* one pass of the loop over the segments: elect, verify, match, append
ChordSegment ==
    /\ phase = "chords"
    /\ segments_done < MaxChordSegments
    /\ \E shape \in ChordShapes, first_count \in CountPatterns,
          bass \in ElectedBasses(key_pc) :
        \E counts \in {RawCounts(key_pc, shape, first_count)} :
        \E verified \in {verify_bass_with_frequency(bass, counts)} :
        \E matched \in {IF verified = None THEN <<NoSymbol, 0>>
                        ELSE match_chord(Keys(counts), verified, version)} :
           /\ bass_pitch' = bass
           /\ pitch_class_raw_counts' = counts
           /\ verified_bass' = verified
           /\ chord_symbol' = matched[1]
           /\ confidence' = matched[2]
           /\ chord_progression' =
                IF verified = None \/ matched[1] = NoSymbol
                THEN chord_progression
                ELSE Append(chord_progression,
                            ChordEntry(segments_done, matched[1], verified, matched[2]))
    /\ segments_done' = segments_done + 1
    /\ UNCHANGED <<phase, version, key_pc, num_measures, pitch_weights,
                   measure_candidates, selectVars, runs, arrangeVars, callVars>>

\* the loop is over, the progression is returned
ChordFinish ==
    /\ phase = "chords"
    /\ segments_done = MaxChordSegments
    /\ phase' = "chordsdone"
    /\ UNCHANGED <<chordVars, selectVars, runs, arrangeVars, callVars>>

NextChord ==
    \/ ChordSegment
    \/ ChordFinish

SpecChord == InitChord /\ [][NextChord]_vars

(***************************************************************************)
(* Properties of chord extraction v9 to v11 (SpecChord).                   *)
(***************************************************************************)
MaxOf(S) == CHOOSE x \in S : \A y \in S : y <= x

\* the highest score any template reaches against the verified bass
HighestScore ==
    MaxOf({TemplateScore(CHORD_TEMPLATES[k],
                         Intervals(Keys(pitch_class_raw_counts), verified_bass.pitchClass),
                         version) : k \in 1..Len(CHORD_TEMPLATES)})

LatestEntries ==
    {i \in 1..Len(chord_progression) :
        /\ chord_progression[i].measure = ((segments_done - 1) \div SegmentsPerMeasure) + 1
        /\ chord_progression[i].beat = (2 * ((segments_done - 1) % SegmentsPerMeasure)) + 1}

\* C7: match_chord returns a symbol only when the highest template score is at
\* least 0.65 (39 sixtieths); when no template reaches it, the result is
\* (None, 0.0) and no record is appended for the segment
C7_AcceptanceThreshold ==
    (segments_done > 0 /\ verified_bass # None /\ pitch_class_raw_counts # <<>>) =>
        /\ chord_symbol # NoSymbol => (HighestScore >= AcceptThreshold
                                       /\ confidence = HighestScore)
        /\ HighestScore < AcceptThreshold =>
             (chord_symbol = NoSymbol /\ confidence = 0 /\ LatestEntries = {})

\* C7 witness: the second segment matched no template well enough and left the
\* progression with the record of the first
C7_Witness ==
    /\ segments_done = 2
    /\ verified_bass # None
    /\ pitch_class_raw_counts # <<>>
    /\ HighestScore > 0
    /\ chord_symbol = NoSymbol
    /\ Len(chord_progression) = 1

MostFrequent(counts) ==
    {counts[i].key : i \in {j \in 1..Len(counts) :
                               \A k \in 1..Len(counts) : counts[k].weight <= counts[j].weight}}

MaxCount(counts) == MaxOf({counts[i].weight : i \in 1..Len(counts)})

\* C9: the verified bass has the most frequent raw pitch class when the elected
\* bass occurs less than half as often as that one, and is the elected bass
\* otherwise, also at exactly half
C9_BassVerification ==
    segments_done > 0 =>
        IF bass_pitch # None /\ pitch_class_raw_counts # <<>>
           /\ 2 * CountOf(pitch_class_raw_counts, bass_pitch.pitchClass)
                < MaxCount(pitch_class_raw_counts)
        THEN /\ verified_bass # None
             /\ verified_bass.pitchClass \in MostFrequent(pitch_class_raw_counts)
        ELSE verified_bass = bass_pitch

\* C9 witness: the bass of the first segment was replaced, the bass of the
\* second occurs exactly half as often as the most frequent pitch class and stayed
C9_Witness ==
    /\ segments_done = 2
    /\ Len(chord_progression) > 0
    /\ chord_progression[1].beat = 1
    /\ chord_progression[1].bass.octave = NoOctave
    /\ bass_pitch # None
    /\ pitch_class_raw_counts # <<>>
    /\ CountOf(pitch_class_raw_counts, bass_pitch.pitchClass) = 1
    /\ MaxCount(pitch_class_raw_counts) = 2
    /\ verified_bass = bass_pitch

MajorTriad(r) == {r, (r + 4) % 12, (r + 7) % 12}

\* C10: in v10 and v11, when the pitch classes are exactly r, r+4, r+7 and the
\* bass is r, the symbol is the name of r with score 1.05 (63 sixtieths), "C"
\* for C, E, G over C
C10_MajorTriad ==
    (segments_done > 0 /\ version \in {"v10", "v11"} /\ verified_bass # None
     /\ Keys(pitch_class_raw_counts) = MajorTriad(verified_bass.pitchClass)) =>
        /\ chord_symbol = verified_bass.name
        /\ confidence = ScoreUnit + MajorBonus
        /\ confidence >= AcceptThreshold
        /\ verified_bass.pitchClass = 0 => chord_symbol = "C"

\* C10 witness: v11 has matched C, E, G over C as "C" and appended the record
C10_Witness ==
    /\ version = "v11"
    /\ segments_done > 0
    /\ verified_bass # None
    /\ Keys(pitch_class_raw_counts) = {0, 4, 7}
    /\ verified_bass.pitchClass = 0
    /\ chord_symbol = "C"
    /\ LatestEntries # {}

(***************************************************************************)
(* Chord extraction v12: match_chord_absolute and the loop of              *)
(* extract_chord_progression_v12.  A pitch is [midi, name]; pitch_weights  *)
(* is the sequence of [key, weight] items, the key being the MIDI number,  *)
(* the weight counted in tenths of the weight it had within two octaves.   *)
(***************************************************************************)
MissingPenalty == 18
MajorBonusV12 == 6
ThresholdV12 == 36
RetryThreshold == 18
LowestScore == -59940

PitchOf(midi) == [midi |-> midi, name |-> PitchName(midi % 12)]

\* octave_penalty: 1.0 up to two octaves above the bass, 0.3 up to three, else 0.1
OctavePenalty(midi, bass_midi) ==
    IF midi - bass_midi <= 24 THEN 10
    ELSE IF midi - bass_midi <= 36 THEN 3
    ELSE 1

\* notes are the [midi, weight] of the segment in part order
RECURSIVE get_segment_pitches_absolute(_, _)
get_segment_pitches_absolute(notes, bass_midi) ==
    IF notes = <<>> THEN <<>>
    ELSE LET n == notes[Len(notes)]
         IN AddWeight(get_segment_pitches_absolute(SubSeq(notes, 1, Len(notes) - 1),
                                                   bass_midi),
                      n.midi, n.weight * OctavePenalty(n.midi, bass_midi))

\* the score of one template, or no score when a seventh chord lacks its seventh
ScoreAbsolute(t, intervals) ==
    LET matches == Cardinality(intervals \cap t.template)
        missing == t.template \ intervals
        base == matches * (ScoreUnit \div Cardinality(t.template))
        penalised == base - (MissingPenalty * Cardinality(missing))
    IN IF t.chord_type = "major" THEN penalised + MajorBonusV12 ELSE penalised

SkippedV12(t, intervals) ==
    t.chord_type \in {"dom7", "min7"} /\ 10 \notin intervals

\* chord_priority names the templates in the order of CHORD_TEMPLATES
RECURSIVE MatchLoopV12(_, _)
MatchLoopV12(k, intervals) ==
    IF k = 0 THEN [best_match |-> NoMatch, best_score |-> LowestScore]
    ELSE LET best == MatchLoopV12(k - 1, intervals)
             t == CHORD_TEMPLATES[k]
         IN IF ~SkippedV12(t, intervals) /\ ScoreAbsolute(t, intervals) > best.best_score
            THEN [best_match |-> t.chord_type,
                  best_score |-> ScoreAbsolute(t, intervals)]
            ELSE best

match_chord_absolute(weights, bass) ==
    IF weights = <<>> THEN <<NoSymbol, 0>>
    ELSE LET best == MatchLoopV12(Len(CHORD_TEMPLATES),
                                  {(m - bass.midi) % 12 : m \in Keys(weights)})
         IN IF best.best_match # NoMatch
            THEN <<bass.name \o Suffix(best.best_match), best.best_score>>
            ELSE <<NoSymbol, 0>>

\* a Counter or dict keyed by pitch class, from the items of weights
RECURSIVE ByPitchClass(_, _)
ByPitchClass(weights, counting) ==
    IF weights = <<>> THEN <<>>
    ELSE LET w == weights[Len(weights)]
         IN AddWeight(ByPitchClass(SubSeq(weights, 1, Len(weights) - 1), counting),
                      w.key % 12, IF counting THEN 1 ELSE w.weight)

LowestOfPc(weights, pc) == MinOf({m \in Keys(weights) : m % 12 = pc})

\* the bass after the frequency check: the lowest pitch of the most frequent
\* pitch class when the elected bass's class occurs less than half as often
FrequencyBass(notes, bass) ==
    LET weights == get_segment_pitches_absolute(notes, bass.midi)
        pc_counts == ByPitchClass(weights, TRUE)
    IN IF pc_counts # <<>>
          /\ 2 * CountOf(pc_counts, bass.midi % 12) < MaxByWeight(pc_counts).weight
          /\ \E m \in Keys(weights) : m % 12 = MaxByWeight(pc_counts).key
       THEN PitchOf(LowestOfPc(weights, MaxByWeight(pc_counts).key))
       ELSE bass

\* the retry loop over candidates[:3]; best is [symbol, confidence, bass]
RECURSIVE RetryLoop(_, _, _, _, _)
RetryLoop(k, candidates, weights, current_bass_pc, first) ==
    IF k = 0 THEN first
    ELSE LET best == RetryLoop(k - 1, candidates, weights, current_bass_pc, first)
             alt_pc == candidates[k].key
         IN IF alt_pc = current_bass_pc THEN best
            ELSE LET alt_bass == PitchOf(LowestOfPc(weights, alt_pc))
                     alt == match_chord_absolute(weights, alt_bass)
                 IN IF alt[2] > best.confidence
                    THEN [symbol |-> alt[1], confidence |-> alt[2], bass |-> alt_bass]
                    ELSE best

\* the match of a segment, retried on other prominent basses when it is poor
MatchWithRetry(weights, bass) ==
    LET m == match_chord_absolute(weights, bass)
        first == [symbol |-> m[1], confidence |-> m[2], bass |-> bass]
    IN IF m[2] < RetryThreshold
       THEN LET candidates == FirstN(SortByWeightDesc(ByPitchClass(weights, FALSE)), 3)
                best == RetryLoop(Len(candidates), candidates, weights,
                                  bass.midi % 12, first)
            IN IF best.confidence > m[2] THEN best ELSE first
       ELSE first

\* measure_candidates[measure_num] = chord_entry, measures counted from 0
StoreCandidate(cands, m, entry) ==
    IF m \notin DOMAIN cands \/ entry.confidence > cands[m].confidence
    THEN [k \in (DOMAIN cands) \cup {m} |-> IF k = m THEN entry ELSE cands[k]]
    ELSE cands

HasChord(progression, m) ==
    \E i \in 1..Len(progression) : progression[i].measure = m + 1

\* faulty variant: every stored candidate is appended
RECURSIVE GuaranteeAlways(_, _, _)
GuaranteeAlways(progression, cands, n) ==
    IF n = 0 THEN progression
    ELSE LET before == GuaranteeAlways(progression, cands, n - 1)
         IN IF (n - 1) \in DOMAIN cands
            THEN Append(before, cands[n - 1])
            ELSE before

\* faulty variant: the stored candidates are never appended
GuaranteeNothing(progression, cands, n) == progression

\* the loop that guarantees a chord in each of the first n measures
RECURSIVE GuaranteeChords(_, _, _)
GuaranteeChords(progression, cands, n) ==
    IF n = 0 THEN progression
    ELSE LET before == GuaranteeChords(progression, cands, n - 1)
         IN IF ~HasChord(before, n - 1) /\ (n - 1) \in DOMAIN cands
            THEN Append(before, cands[n - 1])
            ELSE before

EntryBefore(a, b) == a.measure < b.measure \/ (a.measure = b.measure /\ a.beat < b.beat)

\* chord_progression.sort(key=(measure, beat)): stable
RECURSIVE InsertEntry(_, _)
InsertEntry(sorted, e) ==
    IF sorted = <<>> THEN <<e>>
    ELSE IF EntryBefore(e, Head(sorted))
         THEN <<e>> \o sorted
         ELSE <<Head(sorted)>> \o InsertEntry(Tail(sorted), e)

RECURSIVE SortEntries(_)
SortEntries(progression) ==
    IF progression = <<>> THEN <<>>
    ELSE InsertEntry(SortEntries(SubSeq(progression, 1, Len(progression) - 1)),
                     progression[Len(progression)])

MaxMeasures == 1

\* what sounds above the bass note of a segment
UpperNotes == {<<>>, <<52>>, <<52, 55>>, <<47, 50>>, <<48, 60, 72>>}

BassMidis == {36, 43}

\* the notes of a segment with a bass note b, every note of weight 1
NotesAbove(b, upper) ==
    <<[midi |-> b, weight |-> 1]>> \o [i \in 1..Len(upper) |-> [midi |-> upper[i], weight |-> 1]]

InitV12 ==
    /\ phase = "v12"
    /\ version = "v12"
    /\ key_pc = 0
    /\ num_measures \in 1..MaxMeasures
    /\ segments_done = 0
    /\ bass_pitch = None
    /\ pitch_class_raw_counts = <<>>
    /\ pitch_weights = <<>>
    /\ verified_bass = None
    /\ chord_symbol = NoSymbol
    /\ confidence = 0
    /\ chord_progression = <<>>
    /\ measure_candidates = <<>>
    /\ runs = None
    /\ IdleSelect
    /\ IdleCalls
    /\ IdleArrange

\* a segment without a bass note: continue
V12SilentSegment ==
    /\ phase = "v12"
    /\ segments_done < num_measures * SegmentsPerMeasure
    /\ bass_pitch' = None
    /\ pitch_weights' = <<>>
    /\ chord_symbol' = NoSymbol
    /\ confidence' = 0
    /\ segments_done' = segments_done + 1
    /\ UNCHANGED <<phase, version, key_pc, num_measures, pitch_class_raw_counts,
                   verified_bass, chord_progression, measure_candidates,
                   selectVars, runs, arrangeVars, callVars>>

\* a segment with a bass note: frequency check, match, retry, append or store
V12Segment ==
    /\ phase = "v12"
    /\ segments_done < num_measures * SegmentsPerMeasure
    /\ \E b \in BassMidis, upper \in UpperNotes :
        \E notes \in {NotesAbove(b, upper)} :
        \E bass \in {FrequencyBass(notes, PitchOf(b))} :
        \E weights \in {get_segment_pitches_absolute(notes, bass.midi)} :
        \E m \in {MatchWithRetry(weights, bass)} :
        \E entry \in {ChordEntry(segments_done, m.symbol, m.bass.midi, m.confidence)} :
           /\ bass_pitch' = m.bass
           /\ pitch_weights' = weights
           /\ chord_symbol' = m.symbol
           /\ confidence' = m.confidence
           /\ chord_progression' =
                IF m.symbol # NoSymbol /\ m.confidence >= ThresholdV12
                THEN Append(chord_progression, entry)
                ELSE chord_progression
           /\ measure_candidates' =
                IF m.symbol # NoSymbol /\ m.confidence < ThresholdV12
                THEN StoreCandidate(measure_candidates,
                                    segments_done \div SegmentsPerMeasure, entry)
                ELSE measure_candidates
    /\ segments_done' = segments_done + 1
    /\ UNCHANGED <<phase, version, key_pc, num_measures, pitch_class_raw_counts,
                   verified_bass, selectVars, runs, arrangeVars, callVars>>

\* after the loop: a chord for every measure that has a candidate, then the sort
V12Finish ==
    /\ phase = "v12"
    /\ segments_done = num_measures * SegmentsPerMeasure
    /\ chord_progression' =
         SortEntries(GuaranteeChords(chord_progression, measure_candidates, num_measures))
    /\ phase' = "v12done"
    /\ UNCHANGED <<version, key_pc, num_measures, segments_done, bass_pitch,
                   pitch_class_raw_counts, pitch_weights, verified_bass, chord_symbol,
                   confidence, measure_candidates, selectVars, runs, arrangeVars, callVars>>

NextV12 ==
    \/ V12SilentSegment
    \/ V12Segment
    \/ V12Finish

SpecV12 == InitV12 /\ [][NextV12]_vars

(***************************************************************************)
(* Properties of chord extraction v12 (SpecV12).                           *)
(***************************************************************************)
\* C8 as stated: the progression never holds a record of confidence below 0.6
\* (36 sixtieths)
C8_NoRecordBelowThreshold ==
    \A i \in 1..Len(chord_progression) : chord_progression[i].confidence >= ThresholdV12

\* C8 (amended): while the segments are analysed no record is below 0.6; in the
\* returned progression a record below 0.6 is the only record of its measure and
\* is the best below-threshold match stored for that measure
C8_BelowThresholdOnlyAsFallback ==
    /\ phase = "v12" => C8_NoRecordBelowThreshold
    /\ phase = "v12done" =>
        \A i \in 1..Len(chord_progression) :
            chord_progression[i].confidence < ThresholdV12 =>
                /\ \A j \in 1..Len(chord_progression) :
                    j # i => chord_progression[j].measure # chord_progression[i].measure
                /\ (chord_progression[i].measure - 1) \in DOMAIN measure_candidates
                /\ chord_progression[i] = measure_candidates[chord_progression[i].measure - 1]

\* C8 witness: the returned progression holds a record of negative confidence
C8_Witness ==
    /\ phase = "v12done"
    /\ \E i \in 1..Len(chord_progression) : chord_progression[i].confidence < 0

(***************************************************************************)
(* All four chord extractors, for what holds of every version.             *)
(***************************************************************************)
InitAllChords == InitChord \/ InitV12

NextAllChords ==
    \/ NextChord
    \/ NextV12

SpecAllChords == InitAllChords /\ [][NextAllChords]_vars

\* the confidence of the latest match and of every record lies in lo..hi
ConfidencesWithin(lo, hi) ==
    /\ lo <= confidence /\ confidence <= hi
    /\ \A i \in 1..Len(chord_progression) :
        lo <= chord_progression[i].confidence /\ chord_progression[i].confidence <= hi

\* C11 as stated: every confidence returned and every confidence stored in a
\* record lies in [0, 1] (0 to 60 sixtieths)
C11_ConfidenceInUnitInterval == ConfidencesWithin(0, ScoreUnit)

\* C11 (amended): match_chord returns 0.0 or a confidence from 0.65 up to 1.0
\* in v9 and up to 1.05 in v10 and v11; match_chord_absolute of v12 returns a
\* confidence from -0.8 up to 1.1; the records hold confidences of these ranges
C11_ConfidenceRange ==
    /\ version = "v9" =>
         /\ ConfidencesWithin(0, ScoreUnit)
         /\ confidence # 0 => confidence >= AcceptThreshold
    /\ version \in {"v10", "v11"} =>
         /\ ConfidencesWithin(0, ScoreUnit + MajorBonus)
         /\ confidence # 0 => confidence >= AcceptThreshold
    /\ version = "v12" =>
         ConfidencesWithin(MajorBonusV12 - (3 * MissingPenalty), ScoreUnit + MajorBonusV12)

\* C11 witness: v10 has stored a record of confidence 1.05
C11_Witness ==
    /\ version = "v10"
    /\ chord_progression # <<>>
    /\ chord_progression[Len(chord_progression)].confidence = ScoreUnit + MajorBonus
    /\ confidence = ScoreUnit + MajorBonus

(***************************************************************************)
(* detect_parallel_fifths_octaves on its own: one call on two lists of     *)
(* MIDI numbers, which need not be equally long.                           *)
(***************************************************************************)
MaxNotes == 3

\* pitches a fifth, a unison, a second, a fourth and a sixth apart
DetectPitches == {60, 62, 67, 69}

InitDetect ==
    /\ phase = "detect"
    /\ \E v1 \in SeqsUpTo(DetectPitches, MaxNotes), v2 \in SeqsUpTo(DetectPitches, MaxNotes) :
        detection = [voice1_notes |-> v1, voice2_notes |-> v2, parallels |-> {}]
    /\ transposition = None
    /\ leading = None
    /\ invocation = None
    /\ evaluation = None
    /\ runs = None
    /\ IdleSelect
    /\ IdleArrange
    /\ IdleChord

Detect ==
    /\ phase = "detect"
    /\ detection' =
         [detection EXCEPT !.parallels =
             detect_parallel_fifths_octaves(detection.voice1_notes, detection.voice2_notes)]
    /\ phase' = "detected"
    /\ UNCHANGED <<transposition, leading, invocation, evaluation, selectVars, runs, arrangeVars, chordVars>>

NextDetect == Detect

SpecDetect == InitDetect /\ [][NextDetect]_vars

IntervalClass(a, b) == Abs(a - b) % 12

\* both voices strictly up or both strictly down from position i - 1 to i
SameDirection(v1, v2, i) ==
    \/ (v1[i] > v1[i - 1] /\ v2[i] > v2[i - 1])
    \/ (v1[i] < v1[i - 1] /\ v2[i] < v2[i - 1])

\* C12: an index is flagged exactly when the interval classes before and at it
\* are both 7 or both 0 and both voices moved in the same direction; two windows
\* a fifth apart that shift up by the same interval give exactly one flag
C12_DetectExactly ==
    phase = "detected" =>
        LET v1 == detection.voice1_notes
            v2 == detection.voice2_notes
        IN /\ \A i \in 2..Len(v1) :
                i \in detection.parallels <=>
                    /\ i <= Len(v2)
                    /\ \E c \in {0, 7} : /\ IntervalClass(v1[i - 1], v2[i - 1]) = c
                                         /\ IntervalClass(v1[i], v2[i]) = c
                    /\ SameDirection(v1, v2, i)
           /\ detection.parallels \subseteq 2..Len(v1)
           /\ (/\ Len(v1) = 2 /\ Len(v2) = 2
               /\ Abs(v1[1] - v2[1]) = 7 /\ Abs(v1[2] - v2[2]) = 7
               /\ v1[2] > v1[1] /\ v1[2] - v1[1] = v2[2] - v2[1])
              => Cardinality(detection.parallels) = 1

\* C12 witness: two windows a fifth apart, both voices a tone up, one flag
C12_Witness ==
    /\ phase = "detected"
    /\ detection.voice1_notes = <<67, 69>>
    /\ detection.voice2_notes = <<60, 62>>
    /\ detection.parallels = {2}

(***************************************************************************)
(* Step 3 of arrange_to_quartet_v10: what the correction changes, and what *)
(* it leaves of the order of the voices and of the parallels (SpecV10).    *)
(***************************************************************************)
\* C13: step 3 changes at most the viola pitches at the flagged indices, each by
\* exactly 2 semitones up or down; violin I, violin II, cello and the unflagged
\* viola pitches stay as they were, and the lists passed to fix_parallel_motion
\* are what they were before the call
C13_OnlyFlaggedViola ==
    [][(phase = "arrange" /\ phase' = "done") =>
        \A r \in Runs :
            /\ runs'[r].violin1_notes = runs[r].violin1_notes
            /\ runs'[r].violin2_notes = runs[r].violin2_notes
            /\ runs'[r].cello_notes = runs[r].cello_notes
            /\ Len(runs'[r].viola_notes) = Len(runs[r].viola_notes)
            /\ \A i \in 1..Len(runs[r].viola_notes) :
                runs'[r].viola_notes[i] # runs[r].viola_notes[i] =>
                    /\ i \in DetectedParallels(runs[r])
                    /\ Abs(runs'[r].viola_notes[i] - runs[r].viola_notes[i]) = 2
            /\ runs'[r].v2_midis = runs[r].violin2_notes
            /\ runs'[r].viola_midis = runs[r].viola_notes]_vars

\* C13 witness: step 3 has moved a flagged viola pitch by 2 semitones and the
\* list it was given still holds the selected pitch
C13_Witness ==
    /\ phase = "done"
    /\ \E r \in Runs : \E i \in runs[r].parallels :
        /\ Abs(runs[r].viola_notes[i] - runs[r].viola_midis[i]) = 2
        /\ runs[r].v2_midis = runs[r].violin2_notes

\* C14: after step 3 the four final pitches of every index are ordered
\* cello <= viola <= violin II <= violin I
C14_FinalOrdered ==
    phase = "done" =>
        \A r \in Runs : \A i \in 1..Len(runs[r].cello_notes) :
            /\ runs[r].cello_notes[i] <= runs[r].viola_notes[i]
            /\ runs[r].viola_notes[i] <= runs[r].violin2_notes[i]
            /\ runs[r].violin2_notes[i] <= runs[r].violin1_notes[i]

\* C14 witness: step 3 has moved a flagged viola pitch
C14_Witness ==
    /\ phase = "done"
    /\ \E r \in Runs : \E i \in runs[r].parallels :
        runs[r].viola_notes[i] # runs[r].viola_midis[i]

\* C18: after step 3 the detection, run again on the corrected violin II and
\* viola lists, reports no parallel fifth or octave
C18_NoParallelsRemain ==
    phase = "done" => \A r \in Runs : DetectedParallels(runs[r]) = {}

\* C18 witness: step 3 has run on lists in which parallels had been detected
C18_Witness ==
    /\ phase = "done"
    /\ \E r \in Runs : runs[r].parallels # {}

\* the pitches of one voice in two successive windows are at most MaxLeap apart
LeapsWithin(notes) ==
    \A i \in 2..Len(notes) : Abs(notes[i] - notes[i - 1]) <= MaxLeap

SelectedPitches == {PreLeading(info, 0) : info \in WindowInfos}

InitLead ==
    /\ phase = "leading"
    /\ \E f \in SelectedPitches, prev \in PrevChoices :
        leading = [final_midis |-> f, previous_voices |-> prev, led |-> None]
    /\ invocation = None
    /\ transposition = None
    /\ detection = None
    /\ evaluation = None
    /\ runs = None
    /\ IdleSelect
    /\ IdleArrange
    /\ IdleChord

LeadVoices ==
    /\ phase = "leading"
    /\ leading' = [leading EXCEPT !.led = VoiceLead(leading.final_midis,
                                                    leading.previous_voices)]
    /\ phase' = "led"
    /\ UNCHANGED <<transposition, detection, invocation, evaluation, selectVars, runs, arrangeVars,
                   chordVars>>

NextLead == LeadVoices

SpecLead == InitLead /\ [][NextLead]_vars

\* p is a pitch of the class of current no farther from previous than any other
NearestOfClass(p, current, previous) ==
    /\ p % 12 = current % 12
    /\ \A q \in (previous - 12)..(previous + 12) :
        q % 12 = current % 12 => Abs(p - previous) <= Abs(q - previous)

\* C17: a pitch more than 12 semitones from the voice's previous pitch is
\* replaced by a pitch of its class at the least distance from the previous
\* pitch, at most 6 semitones; any other pitch is left as selected
C17_NearestOctave ==
    (phase = "led" /\ leading.previous_voices # None) =>
        \A i \in 1..4 :
            IF Abs(leading.final_midis[i] - leading.previous_voices[i]) > 12
            THEN /\ NearestOfClass(leading.led[i], leading.final_midis[i],
                                   leading.previous_voices[i])
                 /\ Abs(leading.led[i] - leading.previous_voices[i]) <= 6
            ELSE leading.led[i] = leading.final_midis[i]

\* C17 witness: the step has replaced a pitch that was more than an octave away
\* and kept one that was not
C17_Witness ==
    /\ phase = "led"
    /\ leading.previous_voices # None
    /\ \E i, j \in 1..4 :
        /\ Abs(leading.final_midis[i] - leading.previous_voices[i]) > 12
        /\ leading.led[i] # leading.final_midis[i]
        /\ Abs(leading.final_midis[j] - leading.previous_voices[j]) <= 12
        /\ leading.led[j] = leading.final_midis[j]

(***************************************************************************)
(* One call of transpose_to_ideal_range.                                   *)
(***************************************************************************)
MidiLow == 24
MidiHigh == 108

InstTypes == {"violin", "viola", "cello"}

\* avoid_same_as = None is avoid = FALSE
InitTranspose ==
    /\ phase = "transpose"
    /\ \E p \in MidiLow..MidiHigh, t \in InstTypes, a \in BOOLEAN, q \in MidiLow..MidiHigh :
        /\ (~a) => q = MidiLow
        /\ transposition = [midi |-> p, inst_type |-> t, avoid |-> a, avoid_same_as |-> q,
                            returned |-> NoPitch]
    /\ detection = None
    /\ leading = None
    /\ invocation = None
    /\ evaluation = None
    /\ runs = None
    /\ IdleSelect
    /\ IdleArrange
    /\ IdleChord

Transpose ==
    /\ phase = "transpose"
    /\ transposition' =
         [transposition EXCEPT !.returned =
             transpose_to_ideal_range(transposition.midi, transposition.inst_type,
                                      transposition.avoid, transposition.avoid_same_as)]
    /\ phase' = "transposed"
    /\ UNCHANGED <<detection, leading, invocation, evaluation, selectVars, runs, arrangeVars, chordVars>>

NextTranspose == Transpose

SpecTranspose == InitTranspose /\ [][NextTranspose]_vars

\* C19: whatever the pitch, the instrument and avoid_same_as, the pitch returned
\* lies within the absolute range of the instrument
C19_WithinAbsoluteRange ==
    phase = "transposed" =>
        /\ IDEAL_RANGES[transposition.inst_type].min <= transposition.returned
        /\ transposition.returned <= IDEAL_RANGES[transposition.inst_type].max

\* C19 witness: a call returned a pitch moved away from avoid_same_as
C19_Witness ==
    /\ phase = "transposed"
    /\ transposition.avoid
    /\ Abs(transposition.returned - transposition.avoid_same_as) = 7

\* C20: in the tuple returned by select_harmonic_voices_for_offset the
\* violin II pitch and the viola pitch are different
C20_InnerVoicesDiffer ==
    phase = "returned" => voices[3] # voices[2]

\* C20 witness: a call returned after the viola had been moved off the pitch
\* of the violin II
C20_Witness ==
    /\ phase = "returned"
    /\ final_midis[2] # final_midis[3]
    /\ final_midis[2] % 12 = (final_midis[3] + 7) % 12

(***************************************************************************)
(* evaluate_arrangement.py: the six metrics on one score.  A score is the  *)
(* list of its parts, a part its name and its measures, a measure the      *)
(* notes and rests in it (a rest has midi = NoPitch); durations are in     *)
(* quarter notes.  A metric's value is the fraction num / den.             *)
(***************************************************************************)
Returned(num, den) == [error |-> NoSymbol, num |-> num, den |-> den]

Zero == Returned(0, 1)

Raises(exception) == [error |-> exception, num |-> 0, den |-> 1]

\* min(100, score)
CapAt100(num, den) == IF num > 100 * den THEN Returned(100, 1) ELSE Returned(num, den)

\* [n for n in part.flatten().notesAndRests if hasattr(n, 'pitch')]
PitchedNotes(part) ==
    LET RECURSIVE Flatten(_)
        Flatten(measures) ==
            IF measures = <<>> THEN <<>> ELSE Head(measures) \o Flatten(Tail(measures))
        HasPitch(n) == n.midi # NoPitch
    IN SelectSeq(Flatten(part.measures), HasPitch)

Midis(notes) == {notes[i].midi : i \in 1..Len(notes)}

RECURSIVE SumOf(_, _)
SumOf(s, field) ==
    IF s = <<>> THEN 0 ELSE s[1][field] + SumOf(Tail(s), field)

\* the notes of the part found by a loop over score.parts: the first part of
\* that name when the loop breaks on it, the last one when it runs on; no notes
\* when there is no such part
NotesNamed(score, name, first) ==
    LET named == {i \in 1..Len(score) : score[i].partName = name}
    IN IF named = {} THEN <<>>
       ELSE PitchedNotes(score[IF first THEN MinOf(named) ELSE MaxOf(named)])

evaluate_melody_clarity(score) ==
    LET violin1_notes == NotesNamed(score, "Violin I", TRUE)
        len == Len(violin1_notes)
        high_notes == Cardinality({i \in 1..len : violin1_notes[i].midi > 72})
        same_pitch_count ==
            Cardinality({i \in 2..len : violin1_notes[i].midi = violin1_notes[i - 1].midi})
        continuity_score ==
            IF len > 1
            THEN IF 10 * same_pitch_count > len - 1 /\ 10 * same_pitch_count < 3 * (len - 1)
                 THEN 30
                 ELSE IF 10 * same_pitch_count <= len - 1 THEN 20
                 ELSE IF 2 * same_pitch_count <= len - 1 THEN 10
                 ELSE 0
            ELSE 0
        range_width == MaxOf(Midis(violin1_notes)) - MinOf(Midis(violin1_notes))
        range_score == IF range_width > 12 THEN 20 ELSE IF range_width > 6 THEN 15 ELSE 5
    IN IF violin1_notes = <<>> THEN Zero
       ELSE CapAt100((high_notes * 50) + ((continuity_score + range_score) * len), len)

evaluate_bass_line_strength(score) ==
    LET cello_notes == NotesNamed(score, "Cello", TRUE)
        len == Len(cello_notes)
        low_notes == Cardinality({i \in 1..len : cello_notes[i].midi < 60})
        long_notes == Cardinality({i \in 1..len : cello_notes[i].quarterLength >= 1})
        range_score ==
            IF SumOf(cello_notes, "midi") < 50 * len THEN 20
            ELSE IF SumOf(cello_notes, "midi") < 60 * len THEN 15
            ELSE 5
    IN IF cello_notes = <<>> THEN Zero
       ELSE CapAt100((low_notes * 50) + (long_notes * 30) + (range_score * len), len)

\* the two chained comparisons index range_order as far as they are evaluated:
\* a comparison that is false stops the chain before the next index is read
RangeDistribution(range_order) ==
    LET n == Len(range_order)
    IN IF n < 2 THEN Raises("IndexError")
       ELSE IF ~(range_order[1] < range_order[2]) THEN Returned(10, 1)
       ELSE IF n < 3 THEN Raises("IndexError")
       ELSE IF range_order[2] < range_order[3]
            THEN IF n < 4 THEN Raises("IndexError")
                 ELSE IF range_order[3] < range_order[4] THEN Returned(30, 1)
                 ELSE Returned(10, 1)
            ELSE IF n < 4 THEN Raises("IndexError")
                 ELSE IF range_order[3] < range_order[4] THEN Returned(20, 1)
                 ELSE Returned(10, 1)

\* parts_data is keyed by part name and holds the parts that have notes: a later
\* part of the same name replaces the earlier one
evaluate_harmonic_richness(score) ==
    LET voiced == {i \in 1..Len(score) : PitchedNotes(score[i]) # <<>>}
        parts_data == {score[i].partName : i \in voiced}
        DataOf(name) ==
            PitchedNotes(score[MaxOf({i \in voiced : score[i].partName = name})])
        unique_pitches ==
            Cardinality({m % 12 : m \in UNION {Midis(DataOf(name)) : name \in parts_data}})
        pitch_diversity_score == Min2(40, unique_pitches * 6)
        violin2_midis ==
            IF "Violin II" \in parts_data THEN FirstN(DataOf("Violin II"), 50) ELSE <<>>
        viola_midis ==
            IF "Viola" \in parts_data THEN FirstN(DataOf("Viola"), 50) ELSE <<>>
        min_len == Min2(Len(violin2_midis), Len(viola_midis))
        same_count ==
            Cardinality({i \in 1..min_len : violin2_midis[i].midi = viola_midis[i].midi})
        chord_quality_score ==
            IF violin2_midis # <<>> /\ viola_midis # <<>>
            THEN IF 5 * same_count < min_len THEN 30
                 ELSE IF 5 * same_count < 2 * min_len THEN 20
                 ELSE IF 5 * same_count < 3 * min_len THEN 10
                 ELSE 0
            ELSE 0
        IsPresent(name) == name \in parts_data
        present == SelectSeq(<<"Cello", "Viola", "Violin II", "Violin I">>, IsPresent)
        range_order == [k \in 1..Len(present) |-> MinOf(Midis(DataOf(present[k])))]
        range_distribution == RangeDistribution(range_order)
    IN IF Cardinality(parts_data) < 4 THEN Zero
       ELSE IF range_distribution.error # NoSymbol THEN range_distribution
       ELSE CapAt100(pitch_diversity_score + chord_quality_score + range_distribution.num, 1)

\* 'Violin' in part_name, 'Viola' in part_name, 'Cello' in part_name
InstTypeOf(part_name) ==
    IF part_name \in {"Violin I", "Violin II"} THEN "violin"
    ELSE IF part_name = "Viola" THEN "viola"
    ELSE IF part_name = "Cello" THEN "cello"
    ELSE NoSymbol

\* total_score sums part_score = (range_score + comfort_score) / 2 over the
\* parts of a known instrument; every part that has notes is counted
evaluate_range_appropriateness(score) ==
    LET counted == {i \in 1..Len(score) : PitchedNotes(score[i]) # <<>>}
        typed == {i \in counted : InstTypeOf(score[i].partName) # NoSymbol}
        TwicePartScore(notes, ideal) ==
            LET min_midi == MinOf(Midis(notes))
                max_midi == MaxOf(Midis(notes))
                range_score ==
                    IF min_midi >= ideal.min /\ max_midi <= ideal.max THEN 40
                    ELSE IF min_midi >= ideal.min - 5 /\ max_midi <= ideal.max + 5 THEN 30
                    ELSE 10
                comfort_notes ==
                    Cardinality({i \in 1..Len(notes) :
                                    /\ ideal.comfort_min <= notes[i].midi
                                    /\ notes[i].midi <= ideal.comfort_max})
                comfort_score ==
                    IF 10 * comfort_notes >= 8 * Len(notes) THEN 60
                    ELSE IF 10 * comfort_notes >= 6 * Len(notes) THEN 40
                    ELSE IF 10 * comfort_notes >= 4 * Len(notes) THEN 20
                    ELSE 5
            IN range_score + comfort_score
        RECURSIVE Total(_)
        Total(S) ==
            IF S = {} THEN 0
            ELSE LET i == CHOOSE x \in S : TRUE
                 IN TwicePartScore(PitchedNotes(score[i]),
                                   IDEAL_RANGES[InstTypeOf(score[i].partName)])
                    + Total(S \ {i})
    IN IF counted = {} THEN Zero
       ELSE Returned(Total(typed), 2 * Cardinality(counted))

evaluate_rhythm_accuracy(score) ==
    IF score = <<>> THEN Raises("IndexError")
    ELSE LET measures == score[1].measures
             total_measures == Min2(Len(measures), 10)
             correct_measures ==
                 Cardinality({i \in 1..total_measures :
                                 SumOf(measures[i], "quarterLength") = 4})
         IN IF measures = <<>> THEN Zero
            ELSE Returned(correct_measures * 100, total_measures)

evaluate_voice_leading(score) ==
    LET leaping == {i \in 1..Len(score) : Len(PitchedNotes(score[i])) >= 2}
        \* the score of one part's leaps over its first 20 notes
        LeapScore(notes) ==
            LET count == Min2(Len(notes), 20) - 1
                total == SumOf([i \in 1..count |->
                                  [leap |-> Abs(notes[i + 1].midi - notes[i].midi)]], "leap")
            IN IF total <= 3 * count THEN 25
               ELSE IF total <= 6 * count THEN 15
               ELSE IF total <= 9 * count THEN 10
               ELSE 5
        RECURSIVE Total(_)
        Total(S) == IF S = {} THEN 0
                    ELSE LET i == CHOOSE x \in S : TRUE
                         IN LeapScore(PitchedNotes(score[i])) + Total(S \ {i})
        violin2_notes == NotesNamed(score, "Violin II", FALSE)
        viola_notes == NotesNamed(score, "Viola", FALSE)
        min_len == Min2(Min2(Len(violin2_notes), Len(viola_notes)), 20)
        same_count ==
            Cardinality({i \in 1..min_len : violin2_notes[i].midi = viola_notes[i].midi})
    IN IF violin2_notes # <<>> /\ viola_notes # <<>>
       THEN CapAt100((Total(leaping) * min_len) + (25 * (min_len - same_count)), min_len)
       ELSE CapAt100(Total(leaping), 1)

(***************************************************************************)
(* evaluate_arrangement: the metrics are called one after the other; an    *)
(* exception in one of them ends the evaluation.                           *)
(***************************************************************************)
MaxParts == 4

ScorePartNames == {"Violin I", "Violin II", "Viola", "Cello", "Flute"}

\* a part without measures, a measure of one whole note, a measure of a half
\* and a quarter note
PartMeasures ==
    {<<>>,
     <<<<[midi |-> 48, quarterLength |-> 4]>>>>,
     <<<<[midi |-> 74, quarterLength |-> 2], [midi |-> 76, quarterLength |-> 1]>>>>}

InitEval ==
    /\ phase = "evaluate"
    /\ \E score \in SeqsUpTo([partName : ScorePartNames, measures : PartMeasures], MaxParts) :
        evaluation = [score |-> score, results |-> <<>>]
    /\ transposition = None
    /\ detection = None
    /\ leading = None
    /\ invocation = None
    /\ runs = None
    /\ IdleSelect
    /\ IdleArrange
    /\ IdleChord

\* one call of evaluate_arrangement each; an exception ends the evaluation
EvalMelody ==
    /\ phase = "evaluate"
    /\ Len(evaluation.results) = 0
    /\ \E outcome \in {evaluate_melody_clarity(evaluation.score)} :
        /\ evaluation' = [evaluation EXCEPT !.results = Append(@, outcome)]
        /\ phase' = IF outcome.error # NoSymbol THEN "raised" ELSE "evaluate"
    /\ UNCHANGED <<transposition, detection, leading, invocation, selectVars, runs, arrangeVars,
                   chordVars>>

EvalBass ==
    /\ phase = "evaluate"
    /\ Len(evaluation.results) = 1
    /\ \E outcome \in {evaluate_bass_line_strength(evaluation.score)} :
        /\ evaluation' = [evaluation EXCEPT !.results = Append(@, outcome)]
        /\ phase' = IF outcome.error # NoSymbol THEN "raised" ELSE "evaluate"
    /\ UNCHANGED <<transposition, detection, leading, invocation, selectVars, runs, arrangeVars,
                   chordVars>>

EvalHarmony ==
    /\ phase = "evaluate"
    /\ Len(evaluation.results) = 2
    /\ \E outcome \in {evaluate_harmonic_richness(evaluation.score)} :
        /\ evaluation' = [evaluation EXCEPT !.results = Append(@, outcome)]
        /\ phase' = IF outcome.error # NoSymbol THEN "raised" ELSE "evaluate"
    /\ UNCHANGED <<transposition, detection, leading, invocation, selectVars, runs, arrangeVars,
                   chordVars>>

EvalRange ==
    /\ phase = "evaluate"
    /\ Len(evaluation.results) = 3
    /\ \E outcome \in {evaluate_range_appropriateness(evaluation.score)} :
        /\ evaluation' = [evaluation EXCEPT !.results = Append(@, outcome)]
        /\ phase' = IF outcome.error # NoSymbol THEN "raised" ELSE "evaluate"
    /\ UNCHANGED <<transposition, detection, leading, invocation, selectVars, runs, arrangeVars,
                   chordVars>>

EvalRhythm ==
    /\ phase = "evaluate"
    /\ Len(evaluation.results) = 4
    /\ \E outcome \in {evaluate_rhythm_accuracy(evaluation.score)} :
        /\ evaluation' = [evaluation EXCEPT !.results = Append(@, outcome)]
        /\ phase' = IF outcome.error # NoSymbol THEN "raised" ELSE "evaluate"
    /\ UNCHANGED <<transposition, detection, leading, invocation, selectVars, runs, arrangeVars,
                   chordVars>>

EvalVoice ==
    /\ phase = "evaluate"
    /\ Len(evaluation.results) = 5
    /\ \E outcome \in {evaluate_voice_leading(evaluation.score)} :
        /\ evaluation' = [evaluation EXCEPT !.results = Append(@, outcome)]
        /\ phase' = IF outcome.error # NoSymbol THEN "raised" ELSE "evaluated"
    /\ UNCHANGED <<transposition, detection, leading, invocation, selectVars, runs, arrangeVars,
                   chordVars>>

NextEval ==
    \/ EvalMelody
    \/ EvalBass
    \/ EvalHarmony
    \/ EvalRange
    \/ EvalRhythm
    \/ EvalVoice

SpecEval == InitEval /\ [][NextEval]_vars

\* the parts of that name that have notes
Voiced(score, name) ==
    {i \in 1..Len(score) : score[i].partName = name /\ PitchedNotes(score[i]) # <<>>}

\* C15: whatever parts the score has and however they are named, every metric
\* returns a number and none raises; the melody metric is 0 without a
\* Violin I, the bass metric 0 without a Cello, the harmony metric 0 with
\* fewer than four parts
C15_MetricsNeverRaise ==
    LET score == evaluation.score
        results == evaluation.results
    IN /\ \A k \in 1..Len(results) : results[k].error = NoSymbol
       /\ (Len(results) >= 1 /\ Voiced(score, "Violin I") = {}) => results[1] = Zero
       /\ (Len(results) >= 2 /\ Voiced(score, "Cello") = {}) => results[2] = Zero
       /\ (Len(results) >= 3 /\ Len(score) < 4) => results[3] = Zero

\* C15 witness: all six metrics returned on a score without a Violin I, the
\* melody metric with 0
C15_Witness ==
    /\ phase = "evaluated"
    /\ Voiced(evaluation.score, "Violin I") = {}
    /\ evaluation.score # <<>>
    /\ evaluation.results[1] = Zero

(***************************************************************************)
(* The number of windows of the fixed-length arrangers (SpecV1, SpecV3).   *)
(***************************************************************************)
CeilDiv(a, b) == (a + b - 1) \div b

\* C23: when a fixed-length arranger has run, the number of windows it
\* processed is ceil(total_length / segment_length): a last partial window is
\* processed too
C23_WindowCountCeiling ==
    phase \in {"v1done", "v3done"} => segment_idx = CeilDiv(total_length, segment_length)

\* C23 witness: a run has ended on a score whose length is no multiple of the
\* segment length, after at least one window
C23_Witness ==
    /\ phase \in {"v1done", "v3done"}
    /\ segment_idx >= 1
    /\ total_length % segment_length # 0

(***************************************************************************)
(* The top-4 selection by weight on its own: select_voices (v1) and        *)
(* select_four_voices_at_onset (v4), called on notes in the order in which *)
(* the collection loop appended them.                                      *)
(***************************************************************************)
\* sorted(midi_weights.items(), key=lambda x: x[1], reverse=True)[:4] after
\* the bass bonus
TopFour(notes) == FirstN(SortByWeightDesc(BassBonus(MidiWeights(notes))), 4)

select_four_voices_at_onset(notes_at_onset) ==
    IF notes_at_onset = <<>> THEN None
    ELSE LET top == TopFour(notes_at_onset)
             \* while len(top_4) < 4: top_4.append(top_4[-1])
             top_4 == [i \in 1..4 |-> top[Min2(i, Len(top))].key]
             low(i) == Cardinality({j \in 1..4 : top_4[j] < top_4[i] \/
                                                 (top_4[j] = top_4[i] /\ j < i)})
             \* sorted(top_4, key=lambda x: x[0])
             selected == [k \in 1..4 |-> top_4[CHOOSE i \in 1..4 : low(i) = k - 1]]
             midi_durations(midi) ==
                 MaxOf({notes_at_onset[i].duration :
                          i \in {j \in 1..Len(notes_at_onset) :
                                   notes_at_onset[j].midi = midi}})
             R == INSTRUMENT_RANGES
         IN <<transpose_to_range(selected[1], R.cello[1], R.cello[2]),
              transpose_to_range(selected[2], R.viola[1], R.viola[2]),
              transpose_to_range(selected[3], R.violin[1], R.violin[2]),
              transpose_to_range(selected[4], R.violin[1], R.violin[2]),
              MaxOf({midi_durations(selected[k]) : k \in 1..4})>>

MaxCollected == 6

\* the notes a collection loop can append: a sixteenth of weight 1 at one of
\* five pitches, the same pitch any number of times
CollectedNotes ==
    {[midi |-> p, weight |-> 1, duration |-> 1] : p \in {40, 47, 52, 55, 59}}

InitTop4 ==
    /\ phase = "top4"
    /\ invocation \in
          {[function |-> f, notes |-> ns, top_4 |-> <<>>, returned |-> None] :
             f \in {"select_voices", "select_four_voices_at_onset"},
             ns \in SeqsUpTo(CollectedNotes, MaxCollected)}
    /\ transposition = None
    /\ detection = None
    /\ leading = None
    /\ evaluation = None
    /\ runs = None
    /\ IdleSelect
    /\ IdleArrange
    /\ IdleChord

\* one call of select_voices
SelectVoices ==
    /\ phase = "top4"
    /\ invocation.function = "select_voices"
    /\ invocation' = [invocation EXCEPT
                         !.top_4 = TopFour(invocation.notes),
                         !.returned = select_voices(invocation.notes)]
    /\ phase' = "selected"
    /\ UNCHANGED <<transposition, detection, leading, evaluation, runs,
                   selectVars, arrangeVars, chordVars>>

\* one call of select_four_voices_at_onset
SelectAtOnset ==
    /\ phase = "top4"
    /\ invocation.function = "select_four_voices_at_onset"
    /\ invocation' = [invocation EXCEPT
                         !.top_4 = TopFour(invocation.notes),
                         !.returned = select_four_voices_at_onset(invocation.notes)]
    /\ phase' = "selected"
    /\ UNCHANGED <<transposition, detection, leading, evaluation, runs,
                   selectVars, arrangeVars, chordVars>>

NextTop4 == SelectVoices \/ SelectAtOnset

SpecTop4 == InitTop4 /\ [][NextTop4]_vars

\* the pitches that made the cut, the ones that did not, the weight each was
\* ranked by and the position at which each was collected first
KeptPitches == Keys(invocation.top_4)

DroppedPitches == Keys(MidiWeights(invocation.notes)) \ KeptPitches

RankedWeight(midi) ==
    LET d == BassBonus(MidiWeights(invocation.notes))
    IN d[CHOOSE i \in 1..Len(d) : d[i].key = midi].weight

FirstCollected(midi) ==
    MinOf({i \in 1..Len(invocation.notes) : invocation.notes[i].midi = midi})

\* C21: after a top-4 selection, a kept pitch that ties in weight with a
\* dropped pitch is the lower of the two
C21_LowerPitchKeptOnTie ==
    phase = "selected" =>
        \A k \in KeptPitches : \A d \in DroppedPitches :
            RankedWeight(k) = RankedWeight(d) => k < d

\* C21 as the code has it: a kept pitch outweighs every dropped pitch, or
\* ties with it and was collected before it
C21_FirstCollectedKeptOnTie ==
    phase = "selected" =>
        \A k \in KeptPitches : \A d \in DroppedPitches :
            \/ RankedWeight(k) > RankedWeight(d)
            \/ /\ RankedWeight(k) = RankedWeight(d)
               /\ FirstCollected(k) < FirstCollected(d)

\* C21 witness: a selection has dropped a pitch that ties with a kept one
C21_Witness ==
    /\ phase = "selected"
    /\ \E k \in KeptPitches : \E d \in DroppedPitches :
          RankedWeight(k) = RankedWeight(d)

(***************************************************************************)
(* The weighting passes of the v9 chord extractor over one segment:        *)
(* get_segment_bass_weighted and get_segment_pitches_weighted.             *)
(* An instrument name is the sequence of its characters.  Offsets and      *)
(* lengths are counted in sixteenths (a quarter note is 4); a bass score   *)
(* is counted in 1/80 and a pitch class weight in 1/800.                   *)
(***************************************************************************)
\* str.lower() on the letters the names use
Lower(name) ==
    [i \in 1..Len(name) |->
        CASE name[i] = "B" -> "b" [] name[i] = "C" -> "c" [] name[i] = "D" -> "d"
          [] name[i] = "P" -> "p" [] name[i] = "T" -> "t" [] name[i] = "V" -> "v"
          [] OTHER -> name[i]]

\* kw in name
Contains(name, kw) ==
    \E i \in 0..(Len(name) - Len(kw)) : SubSeq(name, i + 1, i + Len(kw)) = kw

\* classify_role of the chord extractors, on the instrument name
RoleOfName(instrumentName) ==
    LET name == Lower(instrumentName)
        any(kws) == \E kw \in kws : Contains(name, kw)
    IN IF any({<<"b", "a", "s", "s">>, <<"c", "e", "l", "l", "o">>,
               <<"t", "u", "b", "a">>,
               <<"c", "o", "n", "t", "r", "a", "b", "a", "s", "s">>})
       THEN "bass"
       ELSE IF any({<<"v", "i", "o", "l", "i", "n">>, <<"f", "l", "u", "t", "e">>,
                    <<"s", "o", "p", "r", "a", "n", "o">>, <<"o", "b", "o", "e">>,
                    <<"c", "l", "a", "r", "i", "n", "e", "t">>})
            THEN "melody"
            ELSE "inner"

\* the weight of one element for a segment, without the role weight; 0 when
\* the element is skipped.  short is the weight of a note shorter than 0.5
ElementWeight(element, start_offset, end_offset, short) ==
    LET note_start == element.offset
        note_end == note_start + element.quarterLength
        overlap == Min2(note_end, end_offset) -
                   (IF note_start > start_offset THEN note_start ELSE start_offset)
        duration_weight == IF element.quarterLength < 2 THEN short
                           ELSE IF element.quarterLength < 4 THEN 10 ELSE 20
        beat_weight == IF note_start % 16 \in {0, 8} THEN 3 ELSE 2
    IN IF note_start >= end_offset \/ note_end <= start_offset \/ overlap <= 0 THEN 0
       ELSE duration_weight * beat_weight * overlap

\* the elements of the parts, one after the other, each with its part's role
RECURSIVE ElementsOf(_)
ElementsOf(score_parts) ==
    IF score_parts = <<>> THEN <<>>
    ELSE [i \in 1..Len(score_parts[1].elements) |->
             [element |-> score_parts[1].elements[i],
              role |-> RoleOfName(score_parts[1].instrumentName)]]
         \o ElementsOf(Tail(score_parts))

\* the MIDI number of the elected bass pitch, NoPitch for None
get_segment_bass_weighted(bass_parts, start_offset, end_offset) ==
    LET \* the pitch of a note, or the lowest pitch of a chord, with its weight
        RECURSIVE Contributions(_)
        Contributions(es) ==
            IF es = <<>> THEN <<>>
            ELSE LET e == es[1].element
                     w == ElementWeight(e, start_offset, end_offset, 1)
                 IN (IF w = 0 \/ e.pitches = <<>> THEN <<>>
                     ELSE <<[midi |-> MinOf({e.pitches[i] : i \in 1..Len(e.pitches)}),
                             weight |-> w]>>)
                    \o Contributions(Tail(es))
        \* bass_scores, with the pitch stored first for each pitch class
        RECURSIVE Scores(_)
        Scores(cs) ==
            IF cs = <<>> THEN <<>>
            ELSE LET d == Scores(SubSeq(cs, 1, Len(cs) - 1))
                     c == cs[Len(cs)]
                 IN IF \E i \in 1..Len(d) : d[i].key = c.midi % 12
                    THEN [i \in 1..Len(d) |->
                             IF d[i].key = c.midi % 12
                             THEN [d[i] EXCEPT !.weight = @ + c.weight] ELSE d[i]]
                    ELSE Append(d, [key |-> c.midi % 12, weight |-> c.weight,
                                    midi |-> c.midi])
        bass_scores == Scores(Contributions(ElementsOf(bass_parts)))
    IN IF bass_scores = <<>> THEN NoPitch ELSE MaxByWeight(bass_scores).midi

\* pitch_class_weights and pitch_class_raw_counts
get_segment_pitches_weighted(score_parts, start_offset, end_offset, role_weights) ==
    LET \* the parts the pass does not skip
        RECURSIVE WithoutDrums(_)
        WithoutDrums(ps) ==
            IF ps = <<>> THEN <<>>
            ELSE (IF Contains(Lower(ps[1].instrumentName), <<"d", "r", "u", "m">>)
                  THEN <<>> ELSE <<ps[1]>>)
                 \o WithoutDrums(Tail(ps))
        \* what the notes add to pitch_class_weights, in order
        RECURSIVE Contributions(_)
        Contributions(es) ==
            IF es = <<>> THEN <<>>
            ELSE LET e == es[1].element
                     w == role_weights[es[1].role] *
                          ElementWeight(e, start_offset, end_offset, 2)
                 IN (IF w = 0 THEN <<>>
                     ELSE [i \in 1..Len(e.pitches) |->
                              [midi |-> e.pitches[i] % 12, weight |-> w]])
                    \o Contributions(Tail(es))
        cs == Contributions(ElementsOf(WithoutDrums(score_parts)))
    IN <<MidiWeights(cs),
         MidiWeights([i \in 1..Len(cs) |-> [midi |-> cs[i].midi, weight |-> 1]])>>

MaxScoreParts == 2

\* a part is an instrument name and what it holds in the first measure: a
\* note has one pitch, a chord several and a rest none
ScoreParts ==
    {[instrumentName |-> n, elements |-> es] :
       n \in {<<"C", "e", "l", "l", "o">>, <<"V", "i", "o", "l", "i", "n">>,
              <<"V", "i", "o", "l", "a">>,
              <<"B", "a", "s", "s", " ", "D", "r", "u", "m">>,
              <<"T", "i", "m", "p", "a", "n", "i">>,
              <<"P", "e", "r", "c", "u", "s", "s", "i", "o", "n">>},
       es \in {<<[offset |-> 0, quarterLength |-> 8, pitches |-> <<36>>]>>,
               <<[offset |-> 0, quarterLength |-> 4, pitches |-> <<>>],
                 [offset |-> 4, quarterLength |-> 4, pitches |-> <<55, 43>>]>>,
               <<[offset |-> 0, quarterLength |-> 1, pitches |-> <<62>>],
                 [offset |-> 8, quarterLength |-> 2, pitches |-> <<41>>]>>}}

\* role_weights of extract_chord_progression_v9, in tenths
RoleWeightsV9 == [bass |-> 20, inner |-> 20, melody |-> 3]

\* bass_parts = [p for p in score.parts if classify_role(p) == 'bass']
BassParts(score_parts) ==
    LET RECURSIVE Sel(_)
        Sel(ps) == IF ps = <<>> THEN <<>>
                   ELSE (IF RoleOfName(ps[1].instrumentName) = "bass"
                         THEN <<ps[1]>> ELSE <<>>) \o Sel(Tail(ps))
    IN Sel(score_parts)

\* the first segment of a measure: two quarters from its start
InitWeighting ==
    /\ phase = "bass"
    /\ invocation \in
          {[score |-> ps, start_offset |-> 0, end_offset |-> 8, bass_pitch |-> NoPitch,
            pitch_class_weights |-> <<>>, pitch_class_raw_counts |-> <<>>] :
             ps \in SeqsUpTo(ScoreParts, MaxScoreParts) \ {<<>>}}
    /\ transposition = None
    /\ detection = None
    /\ leading = None
    /\ evaluation = None
    /\ runs = None
    /\ IdleSelect
    /\ IdleArrange
    /\ IdleChord

\* bass_pitch = get_segment_bass_weighted(score, bass_parts, ...)
ElectSegmentBass ==
    /\ phase = "bass"
    /\ invocation' = [invocation EXCEPT !.bass_pitch =
           get_segment_bass_weighted(BassParts(invocation.score),
                                     invocation.start_offset, invocation.end_offset)]
    /\ phase' = "pitches"
    /\ UNCHANGED <<transposition, detection, leading, evaluation, runs,
                   selectVars, arrangeVars, chordVars>>

\* pitch_class_weights, pitch_class_raw_counts = get_segment_pitches_weighted(...)
WeightSegmentPitches ==
    /\ phase = "pitches"
    /\ \E r \in {get_segment_pitches_weighted(invocation.score, invocation.start_offset,
                                               invocation.end_offset, RoleWeightsV9)} :
          invocation' = [invocation EXCEPT !.pitch_class_weights = r[1],
                                           !.pitch_class_raw_counts = r[2]]
    /\ phase' = "weighted"
    /\ UNCHANGED <<transposition, detection, leading, evaluation, runs,
                   selectVars, arrangeVars, chordVars>>

NextWeighting == ElectSegmentBass \/ WeightSegmentPitches

SpecWeighting == InitWeighting /\ [][NextWeighting]_vars

\* a percussion part: its name holds "drum", or is Percussion or Timpani
IsPercussion(part) ==
    \/ Contains(Lower(part.instrumentName), <<"d", "r", "u", "m">>)
    \/ Lower(part.instrumentName) \in
          {<<"p", "e", "r", "c", "u", "s", "s", "i", "o", "n">>,
           <<"t", "i", "m", "p", "a", "n", "i">>}

Pitched(score_parts) ==
    LET RECURSIVE Sel(_)
        Sel(ps) == IF ps = <<>> THEN <<>>
                   ELSE (IF IsPercussion(ps[1]) THEN <<>> ELSE <<ps[1]>>) \o Sel(Tail(ps))
    IN Sel(score_parts)

\* C22: the bass, the pitch class weights and the raw counts of a segment are
\* what the score without its percussion parts gives: a percussion part adds
\* no weight to any pass
C22_PercussionAddsNoWeight ==
    phase = "weighted" =>
        /\ invocation.bass_pitch =
              get_segment_bass_weighted(BassParts(Pitched(invocation.score)),
                                        invocation.start_offset, invocation.end_offset)
        /\ <<invocation.pitch_class_weights, invocation.pitch_class_raw_counts>> =
              get_segment_pitches_weighted(Pitched(invocation.score),
                                           invocation.start_offset,
                                           invocation.end_offset, RoleWeightsV9)

\* C22 witness: both passes have run over a score with a percussion part that
\* holds a note in the segment
C22_Witness ==
    /\ phase = "weighted"
    /\ \E i \in 1..Len(invocation.score) :
          /\ IsPercussion(invocation.score[i])
          /\ \E j \in 1..Len(invocation.score[i].elements) :
                invocation.score[i].elements[j].pitches # <<>>

(***************************************************************************)
(* group_onsets_into_harmonic_segments (v6), one pass of its loop at a     *)
(* time.  Offsets are counted in eighths (a quarter note is 2).            *)
(***************************************************************************)
\* faulty variant: the gap is measured from the start of the current segment
GapFromStart(off, current_segment, max_gap) ==
    off - current_segment.start > max_gap

\* if offset - current_segment['end'] > max_gap
StartsNewSegment(off, current_segment, max_gap) ==
    off - current_segment.end > max_gap

MaxOnset == 6

\* sorted(notes_by_onset.items()): the onsets ascending, each offset once
SortedOnsets ==
    {[i \in 1..Cardinality(S) |->
         [offset |-> SortAsc(S)[i], notes |-> <<60 + SortAsc(S)[i]>>]] :
       S \in SUBSET (0..MaxOnset)}

NewSegment(off) == [start |-> off, end |-> off, onsets |-> <<>>]

InitGroup ==
    /\ phase = "group"
    /\ \E so \in SortedOnsets, gap \in {1, 2} :
          invocation = [sorted_onsets |-> so, max_gap |-> gap, i |-> 1,
                        segments |-> <<>>,
                        current_segment |->
                            IF so = <<>> THEN None ELSE NewSegment(so[1].offset),
                        returned |-> None]
    /\ transposition = None
    /\ detection = None
    /\ leading = None
    /\ evaluation = None
    /\ runs = None
    /\ IdleSelect
    /\ IdleArrange
    /\ IdleChord

\* one pass of the loop over sorted_onsets
GroupOnset ==
    /\ phase = "group"
    /\ invocation.i <= Len(invocation.sorted_onsets)
    /\ LET onset == invocation.sorted_onsets[invocation.i]
           new == StartsNewSegment(onset.offset, invocation.current_segment,
                                   invocation.max_gap)
           cur == IF new THEN NewSegment(onset.offset) ELSE invocation.current_segment
       IN invocation' = [invocation EXCEPT
              !.i = @ + 1,
              !.segments = IF new THEN Append(@, invocation.current_segment) ELSE @,
              !.current_segment =
                  [cur EXCEPT !.onsets = Append(@, onset),
                              !.end = IF onset.offset > @ THEN onset.offset ELSE @]]
    /\ UNCHANGED <<phase, transposition, detection, leading, evaluation, runs,
                   selectVars, arrangeVars, chordVars>>

\* after the loop, or at once for an empty list: the last segment and the return
GroupReturn ==
    /\ phase = "group"
    /\ invocation.i > Len(invocation.sorted_onsets)
    /\ invocation' = [invocation EXCEPT !.returned =
           IF invocation.sorted_onsets = <<>> THEN <<>>
           ELSE IF invocation.current_segment.onsets # <<>>
                THEN Append(invocation.segments, invocation.current_segment)
                ELSE invocation.segments]
    /\ phase' = "grouped"
    /\ UNCHANGED <<transposition, detection, leading, evaluation, runs,
                   selectVars, arrangeVars, chordVars>>

NextGroup == GroupOnset \/ GroupReturn

SpecGroup == InitGroup /\ [][NextGroup]_vars

\* the onsets of the returned segments, one segment after the other
RECURSIVE OnsetsOf(_)
OnsetsOf(segments) ==
    IF segments = <<>> THEN <<>>
    ELSE segments[1].onsets \o OnsetsOf(Tail(segments))

\* C24: the returned segments hold the sorted onsets, all of them and in
\* their order, in consecutive non-empty groups; two neighbouring onsets are in
\* one group exactly when they are at most max_gap apart, and a group starts
\* exactly where the gap to the onset before exceeds max_gap
C24_GroupsPartitionOnsets ==
    phase = "grouped" =>
        LET segs == invocation.returned
            gap == invocation.max_gap
        IN /\ OnsetsOf(segs) = invocation.sorted_onsets
           /\ \A g \in 1..Len(segs) :
                 /\ segs[g].onsets # <<>>
                 /\ segs[g].start = segs[g].onsets[1].offset
                 /\ segs[g].end = segs[g].onsets[Len(segs[g].onsets)].offset
                 /\ \A k \in 1..(Len(segs[g].onsets) - 1) :
                       segs[g].onsets[k + 1].offset - segs[g].onsets[k].offset <= gap
           /\ \A g \in 1..(Len(segs) - 1) :
                 segs[g + 1].start - segs[g].end > gap

\* C24 witness: a call has returned two groups, one of them with two onsets
C24_Witness ==
    /\ phase = "grouped"
    /\ Len(invocation.returned) >= 2
    /\ \E g \in 1..Len(invocation.returned) : Len(invocation.returned[g].onsets) >= 2

(***************************************************************************)
(* A major triad with a minor seventh above the bass (SpecChord).          *)
(***************************************************************************)
\* the segment matched last had exactly the intervals 0, 4, 7 and 10 above
\* its verified bass, in v10 or v11
SeventhOverBass ==
    /\ segments_done >= 1
    /\ version \in {"v10", "v11"}
    /\ verified_bass # None
    /\ pitch_class_raw_counts # <<>>

\* C25: in v10 and v11, a segment whose intervals above the bass are exactly
\* {0, 4, 7, 10} is given the major symbol, the name of the bass alone, and
\* not the dominant seventh symbol
C25_MajorNotDominantSeventh ==
    (SeventhOverBass /\
     Intervals(Keys(pitch_class_raw_counts), verified_bass.pitchClass) = {0, 4, 7, 10})
        => /\ chord_symbol = verified_bass.name
           /\ chord_symbol # verified_bass.name \o Suffix("dom7")

\* C25 witness: such a segment has been matched
C25_Witness ==
    /\ SeventhOverBass
    /\ Intervals(Keys(pitch_class_raw_counts), verified_bass.pitchClass) = {0, 4, 7, 10}
    /\ chord_symbol # NoSymbol

(***************************************************************************)
(* The range metric on a score that stays in the comfort ranges (SpecEval). *)
(***************************************************************************)
\* every part of the evaluated score is a violin, viola or cello part with
\* notes, all of them inside the comfort range of its instrument
AllInComfortRange ==
    /\ evaluation.score # <<>>
    /\ \A i \in 1..Len(evaluation.score) :
          LET part == evaluation.score[i]
              notes == PitchedNotes(part)
          IN /\ InstTypeOf(part.partName) # NoSymbol
             /\ notes # <<>>
             /\ \A k \in 1..Len(notes) :
                   /\ IDEAL_RANGES[InstTypeOf(part.partName)].comfort_min <= notes[k].midi
                   /\ notes[k].midi <= IDEAL_RANGES[InstTypeOf(part.partName)].comfort_max

\* C26: evaluate_range_appropriateness returns 100 for a score whose every
\* note lies in the comfort range of its instrument: each voice scores its 40
\* range points plus its 60 comfort points, and the result is their mean
C26_ComfortableQuartetScores100 ==
    (Len(evaluation.results) >= 4 /\ AllInComfortRange) =>
        /\ evaluation.results[4].error = NoSymbol
        /\ evaluation.results[4].num = 100 * evaluation.results[4].den

\* C26 witness: the range metric has been evaluated on four such parts
C26_Witness ==
    /\ Len(evaluation.results) >= 4
    /\ AllInComfortRange
    /\ Len(evaluation.score) = 4
    /\ \E i, j \in 1..4 : /\ InstTypeOf(evaluation.score[i].partName) = "cello"
                          /\ InstTypeOf(evaluation.score[j].partName) = "violin"

(***************************************************************************)
(* A record for every measure of v12 that produced a chord symbol (SpecV12).*)
(***************************************************************************)
\* measure m (counted from 0) has a record in the progression or a stored
\* candidate
Kept(progression, cands, m) == HasChord(progression, m) \/ m \in DOMAIN cands

\* C27: a segment of v12 that produces a chord symbol leaves a record or a
\* candidate for its measure, no later segment takes these away, and the
\* returned progression has a record for every such measure: a measure in
\* which a segment produced a chord symbol has a record in the result
C27_MeasureWithSymbolHasRecord ==
    [][/\ (segments_done' = segments_done + 1 /\ chord_symbol' # NoSymbol) =>
             Kept(chord_progression', measure_candidates',
                  segments_done \div SegmentsPerMeasure)
       /\ \A m \in 0..(num_measures - 1) :
             Kept(chord_progression, measure_candidates, m) =>
                 Kept(chord_progression', measure_candidates', m)
       /\ phase' = "v12done" =>
             \A m \in 0..(num_measures - 1) :
                 Kept(chord_progression, measure_candidates, m) =>
                     HasChord(chord_progression', m)]_vars

\* C27 witness: a measure whose segments stayed below the threshold has its
\* stored candidate as a record of the returned progression
C27_Witness ==
    /\ phase = "v12done"
    /\ \E m \in DOMAIN measure_candidates :
          /\ \E i \in 1..Len(chord_progression) :
                chord_progression[i] = measure_candidates[m]
          /\ \A i \in 1..Len(chord_progression) :
                chord_progression[i].measure = m + 1 =>
                    chord_progression[i].confidence < ThresholdV12

(***************************************************************************)
(* create_voice_from_selected_notes (v8).  Offsets and durations are       *)
(* counted in sixteenths (a quarter note is 4).                            *)
(***************************************************************************)
\* float('inf'): larger than every distance between two offsets
Infinity == 1000

\* the loop over selected_notes for a rhythm offset without a note of its
\* own: the note found and min_diff; a note that sounds at off ends the loop
RECURSIVE ClosestNote(_, _, _, _)
ClosestNote(selected_notes, off, closest_note, min_diff) ==
    IF selected_notes = <<>> THEN [closest_note |-> closest_note, min_diff |-> min_diff]
    ELSE LET note == Head(selected_notes)
             note_start == note.offset
             note_end == note_start + note.duration
             diff == Abs(note_start - off)
         IN IF note_start <= off /\ off < note_end
            THEN [closest_note |-> note, min_diff |-> min_diff]
            ELSE IF diff < min_diff
                 THEN ClosestNote(Tail(selected_notes), off, note, diff)
                 ELSE ClosestNote(Tail(selected_notes), off, closest_note, min_diff)

\* min_midi, max_midi of a voice role
RoleRange(voice_role) ==
    CASE voice_role \in {"melody", "harmony1"} -> INSTRUMENT_RANGES.violin
      [] voice_role = "harmony2" -> INSTRUMENT_RANGES.viola
      [] voice_role = "bass" -> INSTRUMENT_RANGES.cello
      [] OTHER -> <<0, 127>>

\* the event of one pass of the loop over rhythm_pattern
VoiceEvent(selected_notes, rhythm, voice_role, measure_start) ==
    LET own == {i \in 1..Len(selected_notes) : selected_notes[i].offset = rhythm.offset}
        found == ClosestNote(selected_notes, rhythm.offset, None, Infinity)
        rest == [offset |-> measure_start + rhythm.offset, midi |-> NoPitch,
                 duration |-> rhythm.duration, is_rest |-> TRUE]
        sound(midi) ==
            [offset |-> measure_start + rhythm.offset,
             midi |-> transpose_to_range(midi, RoleRange(voice_role)[1],
                                         RoleRange(voice_role)[2]),
             duration |-> rhythm.duration, is_rest |-> FALSE]
    IN IF own # {}
       \* notes_by_offset keeps the last note of an offset
       THEN sound(selected_notes[MaxOf(own)].midi)
       ELSE IF found.closest_note # None /\ found.min_diff < 4
            THEN sound(found.closest_note.midi)
            ELSE rest

\* the merge of neighbouring rests and of neighbouring notes of one pitch
RECURSIVE MergeEvents(_, _, _)
MergeEvents(merged_notes, current, voice_notes) ==
    IF voice_notes = <<>> THEN Append(merged_notes, current)
    ELSE LET next_note == Head(voice_notes)
             alike == \/ current.is_rest /\ next_note.is_rest
                      \/ /\ ~current.is_rest
                         /\ ~next_note.is_rest
                         /\ current.midi = next_note.midi
         IN IF alike /\ next_note.offset = current.offset + current.duration
            THEN MergeEvents(merged_notes,
                             [current EXCEPT !.duration =
                                  next_note.offset + next_note.duration - current.offset],
                             Tail(voice_notes))
            ELSE MergeEvents(Append(merged_notes, current), next_note, Tail(voice_notes))

\* voice_notes before the merge, in the order of the rhythm pattern
VoiceNotes(selected_notes, rhythm_pattern, voice_role, measure_start) ==
    [i \in 1..Len(rhythm_pattern) |->
        VoiceEvent(selected_notes, rhythm_pattern[i], voice_role, measure_start)]

create_voice_from_selected_notes(selected_notes, rhythm_pattern, voice_role, measure_start) ==
    LET voice_notes == VoiceNotes(selected_notes, rhythm_pattern, voice_role, measure_start)
    IN IF voice_notes = <<>> THEN <<>>
       ELSE MergeEvents(<<>>, Head(voice_notes), Tail(voice_notes))

MaxSelected == 3

\* select_best_notes: one note for each offset that has one, offsets ascending;
\* the pitch is that of the offset, the duration a sixteenth, a quarter or a half
SelectedNotes ==
    LET pitch_at == [o \in {0, 1, 2, 4} |-> 40 + (9 * o)]
    IN {[i \in 1..Cardinality(DOMAIN d) |->
            [offset |-> SortAsc(DOMAIN d)[i], midi |-> pitch_at[SortAsc(DOMAIN d)[i]],
             duration |-> d[SortAsc(DOMAIN d)[i]]]] :
          d \in UNION {[S -> {1, 4, 8}] :
                         S \in {T \in SUBSET {0, 1, 2, 4} : Cardinality(T) <= MaxSelected}}}

\* extract_rhythm_from_measure: each offset once, ascending, each event
\* lasting to the next one and the last one a quarter
RhythmPatterns ==
    {[i \in 1..Cardinality(S) |->
         [offset |-> SortAsc(S)[i],
          duration |-> IF i < Cardinality(S) THEN SortAsc(S)[i + 1] - SortAsc(S)[i]
                       ELSE 4]] :
       S \in SUBSET {0, 2, 3, 4, 6}}

InitVoice ==
    /\ phase = "voice"
    /\ invocation \in
          {[selected_notes |-> sn, rhythm_pattern |-> rp, voice_role |-> role,
            measure_start |-> ms, voice_notes |-> <<>>, returned |-> <<>>] :
             sn \in SelectedNotes, rp \in RhythmPatterns,
             role \in {"melody", "bass", "harmony1", "harmony2"}, ms \in {0, 16}}
    /\ transposition = None
    /\ detection = None
    /\ leading = None
    /\ evaluation = None
    /\ runs = None
    /\ IdleSelect
    /\ IdleArrange
    /\ IdleChord

\* one call of create_voice_from_selected_notes
CreateVoice ==
    /\ phase = "voice"
    /\ invocation' = [invocation EXCEPT
           !.voice_notes = VoiceNotes(invocation.selected_notes, invocation.rhythm_pattern,
                                      invocation.voice_role, invocation.measure_start),
           !.returned = create_voice_from_selected_notes(
                            invocation.selected_notes, invocation.rhythm_pattern,
                            invocation.voice_role, invocation.measure_start)]
    /\ phase' = "voiced"
    /\ UNCHANGED <<transposition, detection, leading, evaluation, runs,
                   selectVars, arrangeVars, chordVars>>

NextVoice == CreateVoice

SpecVoice == InitVoice /\ [][NextVoice]_vars

\* the selected notes that sound at rhythm offset t without starting there
SoundingAt(t) ==
    {i \in 1..Len(invocation.selected_notes) :
        /\ invocation.selected_notes[i].offset < t
        /\ t < invocation.selected_notes[i].offset + invocation.selected_notes[i].duration}

\* no selected note starts at the offset of rhythm event k, and one sounds there
HeldOver(k) ==
    /\ \A i \in 1..Len(invocation.selected_notes) :
          invocation.selected_notes[i].offset # invocation.rhythm_pattern[k].offset
    /\ SoundingAt(invocation.rhythm_pattern[k].offset) # {}

\* C28: at a rhythm offset where no selected note starts and a selected note
\* is sounding, the voice has the range-folded pitch of a sounding note and
\* not a rest
C28_SoundingNoteEmitted ==
    phase = "voiced" =>
        \A k \in 1..Len(invocation.rhythm_pattern) :
            HeldOver(k) =>
                /\ ~invocation.voice_notes[k].is_rest
                /\ \E i \in SoundingAt(invocation.rhythm_pattern[k].offset) :
                      invocation.voice_notes[k].midi =
                          transpose_to_range(invocation.selected_notes[i].midi,
                                             RoleRange(invocation.voice_role)[1],
                                             RoleRange(invocation.voice_role)[2])

\* C28 witness: a voice was made for such a rhythm offset, and the sounding
\* note had to be folded into the range
C28_Witness ==
    /\ phase = "voiced"
    /\ \E k \in 1..Len(invocation.rhythm_pattern) :
          /\ HeldOver(k)
          /\ \E i \in SoundingAt(invocation.rhythm_pattern[k].offset) :
                invocation.selected_notes[i].midi < RoleRange(invocation.voice_role)[1]

(***************************************************************************)
(* The four pitch classes of a window that has pitch classes (SpecSelect). *)
(***************************************************************************)
PairwiseDistinct(s, from) ==
    \A i, j \in from..Len(s) : i # j => s[i] # s[j]

\* the pitch classes were selected from a window with at least one of them
PcsSelected == phase # "weights" /\ pc_keys # {}

\* C29: whenever the window has at least one pitch class, the four pitch
\* classes of the top-4 selection with fifth stacking are pairwise distinct,
\* in v10 and in v6
C29_FourDistinctPcs ==
    PcsSelected => PairwiseDistinct(top_pcs, 1) /\ PairwiseDistinct(top_pcs_v6, 1)

\* C29 as the code has it: the classes selected from the window come first and
\* are pairwise distinct, each further class is a fifth above the one before,
\* and the last selected class and the stacked ones are pairwise distinct; a
\* stacked class may repeat an earlier selected one
C29_SelectedThenStacked ==
    PcsSelected =>
        \A pcs \in {top_pcs, top_pcs_v6} :
            LET k == Min2(Cardinality(pc_keys), 4)
            IN /\ Len(pcs) = 4
               /\ \A i \in 1..k : pcs[i] \in pc_keys
               /\ PairwiseDistinct(SubSeq(pcs, 1, k), 1)
               /\ \A i \in (k + 1)..4 : pcs[i] = (pcs[i - 1] + 7) % 12
               /\ PairwiseDistinct(pcs, k)

\* C29 witness: a stacked pitch class repeats a selected one
C29_Witness ==
    /\ PcsSelected
    /\ ~PairwiseDistinct(top_pcs, 1)

(***************************************************************************)
(* The pitch classes before and after the last step of a call (SpecSelect). *)
(***************************************************************************)
\* the multiset of the pitch classes of four pitches
PcCount(v) == [pc \in 0..11 |-> Cardinality({i \in 1..4 : v[i] % 12 = pc})]

\* C30: voice leading, range folding with its avoid_same_as adjustment and
\* re-sorting change no pitch class: the returned pitches have the multiset of
\* pitch classes that the four voices had before the smoothing
C30_PitchClassesPreserved ==
    [][(phase = "leading" /\ phase' = "returned") =>
          PcCount(voices') = PcCount(final_midis)]_vars

\* C30 as the code has it: voice leading and range folding keep the pitch
\* class of the cello and of violin I; the viola keeps its pitch class or ends
\* a fifth above it, violin II keeps its pitch class or ends a fifth below it
\* (the avoid_same_as adjustment); re-sorting keeps the multiset
C30_PitchClassesUpToAvoidance ==
    [][(phase = "leading" /\ phase' = "returned") =>
          /\ final_midis'[1] % 12 = final_midis[1] % 12
          /\ final_midis'[4] % 12 = final_midis[4] % 12
          /\ final_midis'[2] % 12 \in {final_midis[2] % 12, (final_midis[2] + 7) % 12}
          /\ final_midis'[3] % 12 \in {final_midis[3] % 12, (final_midis[3] + 5) % 12}
          /\ PcCount(voices') = PcCount(final_midis')]_vars

\* C30 witness: a call has returned a pitch whose pitch class is none of the
\* four selected classes and none that a candidate can have
C30_Witness ==
    /\ phase = "returned"
    /\ \E i \in 1..4 :
          /\ voices[i] % 12 \notin {top_pcs[j] : j \in 1..4}
          /\ voices[i] % 12 \notin InputPcs

====
